---- MODULE Spec2Model ----
(***************************************************************************)
(* State-machine model of the admin console: the partner-requests page     *)
(* (hook usePartnerRequests + partnersService), the phlebotomist page, the *)
(* promo-code page and the lab page.  One page is mounted at a time        *)
(* (route); the backend is an external server reached by request/response  *)
(* messages that may be answered and delivered in any order.               *)
(***************************************************************************)
EXTENDS Integers, Sequences, FiniteSets, TLC

VARIABLES
    route,              \* which page component is mounted
    task,               \* what the admin came to the page to do: review its
                        \* rows, only toggle them, onboard new records,
                        \* browse the list, switch the lab, add packages and
                        \* tests to one lab, use the Actions of several labs
    net,                \* requests in flight: sent, or answered and not yet delivered
    sent,               \* how many requests the page has sent since its mount
    ev,                 \* the handler (or continuation) that ran last, with its outcome
    \* ---- usePartnerRequests
    srv,                \* the server's partner requests (authoritative)
    items, loading, error,
    actionLoadingId,
    confirmOpen, confirmLoading, pendingAction,
    onboardOpen, onboardSubmitting,
    query, selectedStatus, page,
    \* ---- PhlebosOnboarding
    phlebos, isLoadingPhlebos, phlebosError,
    isTogglingId, isDeletingId, selectedLabId,
    \* ---- PromoCodesOnboarding
    promos, isLoadingPromos, promosError,
    \* ---- LabOnboarding
    labs, isLoadingLabs, labsError,
    \* ---- the creation modal of the mounted onboarding page
    isModalOpen, isSubmitting,
    \* ---- PartnersPricingLists (its modal and flag are the two above)
    lab, partnerType, pricingType, file,
    \* ---- AdminDashboard (dashLoading and dashError are its loading and error)
    fromDate, overview, usersTrend, bookingsByLab, paymentMethods,
    dashLoading, dashError,
    \* ---- LabOnboarding: the Actions modal (packages and tests of a lab)
    packageModalOpen, activeLabForPackage, isPostingPackage, isPostingTest,
    activeTab

phlebosPage == << phlebos, isLoadingPhlebos, phlebosError, isTogglingId,
                  isDeletingId, selectedLabId >>
promosPage == << promos, isLoadingPromos, promosError >>
labsPage == << labs, isLoadingLabs, labsError >>
formState == << isModalOpen, isSubmitting >>
notPartners == << phlebosPage, promosPage, labsPage, formState >>
fixed == << route, task >>
pricingForm == << lab, partnerType, pricingType, file >>
metrics == << overview, usersTrend, bookingsByLab, paymentMethods >>
dashboardPage == << fromDate, metrics, dashLoading, dashError >>
actionsModal == << packageModalOpen, activeLabForPackage, isPostingPackage,
                   isPostingTest, activeTab >>
otherPages == << pricingForm, dashboardPage, actionsModal >>
listView == << query, selectedStatus, page >>
partnersPage == << srv, items, loading, error, actionLoadingId, confirmOpen,
                   confirmLoading, pendingAction, onboardOpen, onboardSubmitting,
                   listView >>

vars == << route, task, net, sent, ev, srv, items, loading, error, actionLoadingId,
           confirmOpen, confirmLoading, pendingAction,
           onboardOpen, onboardSubmitting, listView, phlebosPage, promosPage,
           labsPage, formState, otherPages >>

----------------------------------------------------------------------------
(* Bounds of the model *)

\* requests a page sends after the one of its mount effect
MaxRequests == 2
\* toggle requests the phlebotomist page sends in a session of toggling
MaxToggles == 3
\* refreshes of the partner list in a session of browsing
MaxBrowseRequests == 1
\* loads of the dashboard after the one of its mount effect
MaxLoads == 1
\* packages and tests the lab page posts in a session of adding them
MaxPosts == 2

----------------------------------------------------------------------------
(* Values *)

\* JavaScript null / undefined for ids, messages and records
Null == ""

Statuses == {"PENDING", "ACCEPTED", "REJECTED"}
ActionTypes == {"approve", "reject"}

\* the value of the dashboard's overview when it is null
NoOverview == [null |-> TRUE]

\* JavaScript undefined where a record is expected
Undefined == [undefined |-> TRUE]

\* the value of activeLabForPackage when it is null
NoLab == [id |-> Null]

\* the value of pendingAction when it is null
NoAction == [id |-> Null, type |-> Null]

PartnerRequest(id, status, firstName, email) ==
    [id |-> id, status |-> status, firstName |-> firstName, email |-> email]

\* JSON bodies: an array, or an object with named fields
ArrayBody(list) == [kind |-> "array", elems |-> list]
ObjectBody(fields) == [kind |-> "object", fields |-> fields]

IsArray(v) == v.kind = "array"
HasField(v, k) == v.kind = "object" /\ k \in DOMAIN v.fields

\* an HTTP response: ok is res.ok (2xx), body is the parsed JSON
Response(ok, body) == [ok |-> ok, body |-> body]
HttpError == Response(FALSE, ObjectBody([message |-> "error"]))

\* the result of an async service call: a value, or a thrown Error
Return(v) == [threw |-> FALSE, value |-> v, message |-> Null]
Throw(msg) == [threw |-> TRUE, value |-> <<>>, message |-> msg]

\* what the last handler did
Event(op, id, typ, ok) == [op |-> op, id |-> id, typ |-> typ, ok |-> ok]

\* a step of the server, or a handler no property singles out
ServerEvent == Event("other", Null, Null, TRUE)
OtherEvent == Event("other", Null, Null, TRUE)

\* the res of a request that has no answer yet
NoResponse == Response(FALSE, ObjectBody(<<>>))

InFlight(op) == {m \in net : m.op = op}

\* the requests of one kind in flight are told apart by their slot
Budget ==
    CASE task = "toggle" -> MaxToggles
      [] task = "browse" -> MaxBrowseRequests
      [] task = "watch" -> MaxLoads
      [] task \in {"packages", "actions"} -> MaxPosts
      [] OTHER -> MaxRequests
CanSend == sent < Budget
NewSlot(op) == CHOOSE s \in 1..(Budget + 1) :
    /\ \A m \in InFlight(op) : m.slot # s
    /\ \A t \in 1..(s - 1) : \E m \in InFlight(op) : m.slot = t
Sent(op) == {m \in net : m.op = op /\ m.phase = "sent"}
Answered(op) == {m \in net : m.op = op /\ m.phase = "answered"}

----------------------------------------------------------------------------
(* partnersService: the client side of the partner endpoints *)

\* fetchPartnerRequests: the list of a 2xx { success: true, requests } body
fetchPartnerRequests(res) ==
    IF ~res.ok THEN Throw("HTTP error")
    ELSE LET json == res.body IN
         IF ~(HasField(json, "success") /\ json.fields.success = TRUE)
         THEN Throw("API returned success: false")
         ELSE IF HasField(json, "requests")
              THEN Return(json.fields.requests.elems)
              ELSE Return(<<>>)

\* approvePartnerRequest / rejectPartnerRequest / createPartnerOnboard:
\* throw on a non-2xx response, else return the parsed body
patchOrPost(res) ==
    IF ~res.ok THEN Throw("HTTP error") ELSE Return(res.body)

\* for comparison, a check of the body that never sees a failure
BodyNeverFailed(json) == FALSE

\* the hook's check of a returned body: !res || res.success === false
BodyFailed(json) == HasField(json, "success") /\ json.fields.success = FALSE

----------------------------------------------------------------------------
(* The server (external collaborator): statuses move one way only *)

SrvIndex(id) == {i \in 1..Len(srv) : srv[i].id = id}

StatusAfter(type) == IF type = "approve" THEN "ACCEPTED" ELSE "REJECTED"

\* the ids the server gives to records created by the onboarding form
NewIds == <<"n1", "n2", "n3", "n4", "n5">>
SrvCreated == {i \in 1..Len(srv) : \E k \in 1..Len(NewIds) : srv[i].id = NewIds[k]}
NextNewId == NewIds[Cardinality(SrvCreated) + 1]

\* GET /partner-admin/requests: the envelope with the current list; the
\* other answers are a bare array of the list and a non-2xx
ListAnswers ==
    { Response(TRUE, ObjectBody([success |-> TRUE, requests |-> ArrayBody(srv)])),
      Response(TRUE, ArrayBody(srv)),
      HttpError }

ServerAnswerList(m) ==
    /\ m \in Sent("fetchRequests")
    /\ \E r \in ListAnswers :
         net' = (net \ {m}) \cup {[m EXCEPT !.phase = "answered", !.res = r]}
    /\ ev' = ServerEvent
    /\ UNCHANGED << fixed, otherPages, notPartners, listView, sent, srv, items, loading, error,
                    actionLoadingId, confirmOpen, confirmLoading,
                    pendingAction, onboardOpen, onboardSubmitting >>

\* PATCH .../:id/approve|reject: applied only to a PENDING record, and then
\* answered with success; refused or failed otherwise
FailureAnswers ==
    { Response(TRUE, ObjectBody([success |-> FALSE, message |-> "refused"])),
      HttpError }

ServerAnswerPatch(m) ==
    /\ m \in Sent("performAction")
    /\ LET hit == {i \in SrvIndex(m.id) : srv[i].status = "PENDING"} IN
       \/ /\ hit # {}
          /\ srv' = [i \in 1..Len(srv) |->
                       IF i \in hit THEN [srv[i] EXCEPT !.status = StatusAfter(m.type)]
                       ELSE srv[i]]
          /\ net' = (net \ {m}) \cup
                    {[m EXCEPT !.phase = "answered",
                               !.res = Response(TRUE, ObjectBody([success |-> TRUE]))]}
       \/ /\ srv' = srv
          /\ \E r \in FailureAnswers :
               net' = (net \ {m}) \cup {[m EXCEPT !.phase = "answered", !.res = r]}
    /\ ev' = ServerEvent
    /\ UNCHANGED << fixed, otherPages, notPartners, listView, sent, items, loading, error,
                    actionLoadingId, confirmOpen, confirmLoading,
                    pendingAction, onboardOpen, onboardSubmitting >>

\* POST /partners/register: the new record is PENDING; the answer carries
\* request { id, email, status }, or no request object
ServerAnswerOnboard(m) ==
    /\ m \in Sent("onboardSubmit")
    /\ \/ /\ LET rec == PartnerRequest(NextNewId, "PENDING", m.data.firstName, m.data.email) IN
             /\ srv' = <<rec>> \o srv
             /\ \E r \in { Response(TRUE, ObjectBody([success |-> TRUE,
                               request |-> [id |-> rec.id, email |-> rec.email,
                                            status |-> rec.status]])),
                           Response(TRUE, ObjectBody([success |-> TRUE])) } :
                  net' = (net \ {m}) \cup {[m EXCEPT !.phase = "answered", !.res = r]}
       \/ /\ srv' = srv
          /\ \E r \in FailureAnswers :
               net' = (net \ {m}) \cup {[m EXCEPT !.phase = "answered", !.res = r]}
    /\ ev' = ServerEvent
    /\ UNCHANGED << fixed, otherPages, notPartners, listView, sent, items, loading, error,
                    actionLoadingId, confirmOpen, confirmLoading,
                    pendingAction, onboardOpen, onboardSubmitting >>

----------------------------------------------------------------------------
(* usePartnerRequests and PartnersRequestPage *)

\* a new request, not yet answered
Request(op, id, type, data) ==
    [slot |-> NewSlot(op), op |-> op, phase |-> "sent", id |-> id, type |-> type,
     data |-> data, res |-> NoResponse]

NoData == [firstName |-> Null, email |-> Null]

\* the valid inputs of the onboarding form
OnboardForms == {[firstName |-> "C", email |-> "c@x"]}

\* Math.random().toString(36).slice(2, 9): an id no other record has
RandomIds == <<"r1", "r2", "r3", "r4", "r5">>
RandomId == RandomIds[Cardinality({i \in 1..Len(items) :
                \E k \in 1..Len(RandomIds) : items[i].id = RandomIds[k]}) + 1]

\* a modal's backdrop covers the page: its buttons cannot be clicked below it
PageClickable == ~confirmOpen /\ ~onboardOpen

\* the rows are rendered when the list is neither loading nor empty
RowsShown == ~loading /\ Len(items) > 0

\* fetchRequests, up to its await: setLoading(true), setError(null), GET
fetchRequests ==
    /\ CanSend
    /\ loading' = TRUE
    /\ error' = Null
    /\ net' = net \cup {Request("fetchRequests", Null, Null, NoData)}
    /\ sent' = sent + 1

\* the header's Refresh button
Refresh ==
    /\ route = "partners"
    /\ PageClickable
    /\ query' = <<>>
    /\ page' = 1
    /\ fetchRequests
    /\ ev' = Event("refresh", Null, Null, TRUE)
    /\ UNCHANGED << fixed, otherPages, notPartners, selectedStatus, srv, items,
                    actionLoadingId, confirmOpen, confirmLoading, pendingAction,
                    onboardOpen, onboardSubmitting >>

\* the Reload button of the empty list
Reload ==
    /\ route = "partners"
    /\ PageClickable
    /\ ~loading /\ Len(items) = 0
    /\ fetchRequests
    /\ ev' = Event("refresh", Null, Null, TRUE)
    /\ UNCHANGED << fixed, otherPages, notPartners, listView, srv, items, actionLoadingId,
                    confirmOpen, confirmLoading, pendingAction, onboardOpen,
                    onboardSubmitting >>

\* for comparison, a success branch that leaves the page number
fetchRequestsDoneKeepsPage(list) ==
    /\ items' = list
    /\ page' = page
    /\ error' = error

\* the success branch of fetchRequests: setItems(list ?? []), setPage(1)
fetchRequestsDone(list) ==
    /\ items' = list
    /\ page' = 1
    /\ error' = error

\* for comparison, a catch branch that empties the list
fetchRequestsFailedEmptiesList(message) ==
    /\ error' = message
    /\ items' = <<>>
    /\ page' = page

\* the catch branch of fetchRequests: setError(message) and nothing else
fetchRequestsFailed(message) ==
    /\ error' = message
    /\ items' = items
    /\ page' = page

\* fetchRequests, after its await
FetchRequestsSettle(m) ==
    /\ m \in Answered("fetchRequests")
    /\ net' = net \ {m}
    /\ LET list == fetchPartnerRequests(m.res) IN
       /\ IF list.threw
          THEN fetchRequestsFailed(list.message)
          ELSE fetchRequestsDone(list.value)
       /\ ev' = Event("fetchSettle", Null, Null, ~list.threw)
    /\ loading' = FALSE
    /\ UNCHANGED << fixed, otherPages, notPartners, query, selectedStatus, sent, srv,
                    actionLoadingId,
                    confirmOpen, confirmLoading, pendingAction, onboardOpen,
                    onboardSubmitting >>

\* askConfirm: capture the target and open the confirm modal
askConfirm(id, type) ==
    /\ pendingAction' = [id |-> id, type |-> type]
    /\ confirmOpen' = TRUE

\* the table row's Approve / Reject buttons, disabled for the row in flight
AskConfirmTable(i, type) ==
    /\ route = "partners" /\ task = "review"
    /\ PageClickable /\ RowsShown
    /\ i \in 1..Len(items)
    /\ items[i].status = "PENDING"
    /\ actionLoadingId # items[i].id
    /\ askConfirm(items[i].id, type)
    /\ ev' = Event("askConfirm", items[i].id, type, TRUE)
    /\ UNCHANGED << fixed, otherPages, notPartners, listView, net, sent, srv, items, loading,
                    error, actionLoadingId, confirmLoading, onboardOpen,
                    onboardSubmitting >>

\* the small-screen card's Approve / Reject buttons, never disabled
AskConfirmCard(i, type) ==
    /\ route = "partners" /\ task = "review"
    /\ PageClickable /\ RowsShown
    /\ i \in 1..Len(items)
    /\ items[i].status = "PENDING"
    /\ askConfirm(items[i].id, type)
    /\ ev' = Event("askConfirm", items[i].id, type, TRUE)
    /\ UNCHANGED << fixed, otherPages, notPartners, listView, net, sent, srv, items, loading,
                    error, actionLoadingId, confirmLoading, onboardOpen,
                    onboardSubmitting >>

\* the confirm modal's Cancel button: setConfirmOpen(false)
cancelConfirm ==
    /\ confirmOpen' = FALSE
    /\ pendingAction' = pendingAction

CancelConfirm ==
    /\ route = "partners"
    /\ confirmOpen
    /\ cancelConfirm
    /\ ev' = Event("cancel", pendingAction.id, pendingAction.type, TRUE)
    /\ UNCHANGED << fixed, otherPages, notPartners, listView, net, sent, srv, items, loading,
                    error, actionLoadingId, confirmLoading, onboardOpen,
                    onboardSubmitting >>

\* for comparison, a performAction that sends the other action's PATCH
performActionOfOtherType(id, type) ==
    /\ confirmLoading' = TRUE
    /\ actionLoadingId' = id
    /\ net' = net \cup {Request("performAction", id,
                                IF type = "approve" THEN "reject" ELSE "approve",
                                NoData)}
    /\ sent' = sent + 1

\* performAction, up to its await: the in-flight flags and one PATCH
performAction(id, type) ==
    /\ confirmLoading' = TRUE
    /\ actionLoadingId' = id
    /\ net' = net \cup {Request("performAction", id, type, NoData)}
    /\ sent' = sent + 1

\* the confirm modal's Confirm button (disabled while confirmLoading):
\* confirmAndPerform
ConfirmAndPerform ==
    /\ route = "partners"
    /\ confirmOpen /\ ~confirmLoading
    /\ CanSend
    /\ IF pendingAction = NoAction
       THEN UNCHANGED << net, sent, confirmLoading, actionLoadingId >>
       ELSE performAction(pendingAction.id, pendingAction.type)
    /\ ev' = Event("confirm", pendingAction.id, pendingAction.type, TRUE)
    /\ UNCHANGED << fixed, otherPages, notPartners, listView, srv, items, loading, error,
                    confirmOpen, pendingAction, onboardOpen,
                    onboardSubmitting >>

\* for comparison, a performAction that marks every row
MarkStatusOfAll(list, id, type) ==
    [i \in 1..Len(list) |-> [list[i] EXCEPT !.status = StatusAfter(type)]]

\* the list after a successful approve / reject of id
MarkStatus(list, id, type) ==
    [i \in 1..Len(list) |->
        IF list[i].id = id THEN [list[i] EXCEPT !.status = StatusAfter(type)]
        ELSE list[i]]

\* for comparison, a finally block that leaves the row's flag
performActionFinallyKeepsRow ==
    /\ confirmLoading' = FALSE
    /\ actionLoadingId' = actionLoadingId
    /\ confirmOpen' = FALSE
    /\ pendingAction' = NoAction

\* the finally block of performAction
performActionFinally ==
    /\ confirmLoading' = FALSE
    /\ actionLoadingId' = Null
    /\ confirmOpen' = FALSE
    /\ pendingAction' = NoAction

\* performAction, after its await
PerformActionSettle(m) ==
    /\ m \in Answered("performAction")
    /\ net' = net \ {m}
    /\ LET res == patchOrPost(m.res)
           ok == ~res.threw /\ ~BodyFailed(res.value)
       IN /\ items' = IF ok THEN MarkStatus(items, m.id, m.type) ELSE items
          /\ ev' = Event("performSettle", m.id, m.type, ok)
    /\ performActionFinally
    /\ UNCHANGED << fixed, otherPages, notPartners, listView, sent, srv, loading, error,
                    onboardOpen, onboardSubmitting >>

\* the header's New Partner button
OpenOnboard ==
    /\ route = "partners" /\ task = "onboard"
    /\ PageClickable
    /\ onboardOpen' = TRUE
    /\ ev' = OtherEvent
    /\ UNCHANGED << fixed, otherPages, notPartners, listView, net, sent, srv, items, loading,
                    error, actionLoadingId, confirmOpen, confirmLoading,
                    pendingAction, onboardSubmitting >>

\* the onboarding modal's backdrop and close button
CloseOnboard ==
    /\ route = "partners"
    /\ onboardOpen
    /\ onboardOpen' = FALSE
    /\ ev' = OtherEvent
    /\ UNCHANGED << fixed, otherPages, notPartners, listView, net, sent, srv, items, loading,
                    error, actionLoadingId, confirmOpen, confirmLoading,
                    pendingAction, onboardSubmitting >>

\* the form's Submit (disabled while invalid or submitting): onboardSubmit,
\* up to its await
OnboardSubmit(data) ==
    /\ route = "partners"
    /\ onboardOpen /\ ~onboardSubmitting
    /\ CanSend
    /\ onboardSubmitting' = TRUE
    /\ net' = net \cup {Request("onboardSubmit", Null, Null, data)}
    /\ sent' = sent + 1
    /\ ev' = OtherEvent
    /\ UNCHANGED << fixed, otherPages, notPartners, listView, srv, items, loading, error,
                    actionLoadingId, confirmOpen, confirmLoading,
                    pendingAction, onboardOpen >>

\* the record onboardSubmit builds from the answer and the form
NewRequest(json, data) ==
    LET req == IF HasField(json, "request") THEN json.fields.request
               ELSE [id |-> Null, email |-> Null, status |-> Null]
    IN PartnerRequest(IF req.id # Null THEN req.id ELSE RandomId,
                      IF req.status # Null THEN req.status ELSE "PENDING",
                      data.firstName,
                      req.email)

\* for comparison, a create that puts the new record last
PutLast(rec, list) == list \o <<rec>>

\* the list after a successful create: the new record first
Prepend(rec, list) == <<rec>> \o list

\* onboardSubmit, after its await
OnboardSubmitSettle(m) ==
    /\ m \in Answered("onboardSubmit")
    /\ net' = net \ {m}
    /\ LET json == patchOrPost(m.res)
           ok == ~json.threw /\ ~BodyFailed(json.value)
       IN /\ IF ok
             THEN /\ items' = Prepend(NewRequest(json.value, m.data), items)
                  /\ onboardOpen' = FALSE
             ELSE UNCHANGED << items, onboardOpen >>
          /\ ev' = Event("onboardSettle", Null, Null, ok)
    /\ onboardSubmitting' = FALSE
    /\ UNCHANGED << fixed, otherPages, notPartners, listView, sent, srv, loading, error,
                    actionLoadingId, confirmOpen, confirmLoading,
                    pendingAction >>

----------------------------------------------------------------------------
(* The list view of usePartnerRequests: search, status tabs, pagination *)

\* Texts are sequences of characters.  toLowerCase on the letters used here
ToLower(text) ==
    [i \in 1..Len(text) |->
        CASE text[i] = "A" -> "a"
          [] text[i] = "B" -> "b"
          [] text[i] = "D" -> "d"
          [] text[i] = "E" -> "e"
          [] text[i] = "L" -> "l"
          [] text[i] = "N" -> "n"
          [] text[i] = "X" -> "x"
          [] OTHER -> text[i]]

\* String.prototype.trim: drop the white space at both ends
RECURSIVE TrimStart(_)
TrimStart(text) ==
    IF text # <<>> /\ Head(text) = " " THEN TrimStart(Tail(text)) ELSE text
RECURSIVE TrimEnd(_)
TrimEnd(text) ==
    IF text # <<>> /\ text[Len(text)] = " "
    THEN TrimEnd(SubSeq(text, 1, Len(text) - 1))
    ELSE text
Trim(text) == TrimEnd(TrimStart(text))

\* String.prototype.includes
Includes(text, q) ==
    \E i \in 0..(Len(text) - Len(q)) : SubSeq(text, i + 1, i + Len(q)) = q

\* it.field ?? ""
FieldOr(it, f) == IF f \in DOMAIN it THEN it[f] ELSE <<>>

\* `${it.firstName ?? ""} ${it.lastName ?? ""}`
FullName(it) == FieldOr(it, "firstName") \o <<" ">> \o FieldOr(it, "lastName")

\* the predicate of the query filter
MatchesQuery(it, q) ==
    \/ Includes(ToLower(FullName(it)), q)
    \/ Includes(ToLower(FieldOr(it, "email")), q)
    \/ Includes(ToLower(FieldOr(it, "mobile")), q)
    \/ Includes(ToLower(FieldOr(it, "shopName")), q)

\* for comparison, a filter that does not look at the shop
filteredWithoutShop ==
    LET q == ToLower(Trim(query))
        list == IF selectedStatus # "ALL"
                THEN SelectSeq(items, LAMBDA it : it.status = selectedStatus)
                ELSE items
    IN IF q = <<>> THEN list
       ELSE SelectSeq(list, LAMBDA it :
                \/ Includes(ToLower(FullName(it)), q)
                \/ Includes(ToLower(FieldOr(it, "email")), q)
                \/ Includes(ToLower(FieldOr(it, "mobile")), q))

\* for comparison, a filter whose query overrides the status tab
filteredByQueryFirst ==
    LET q == ToLower(Trim(query))
        list == IF selectedStatus # "ALL"
                THEN SelectSeq(items, LAMBDA it : it.status = selectedStatus)
                ELSE items
    IN IF q = <<>> THEN list
       ELSE SelectSeq(items, LAMBDA it : MatchesQuery(it, q))

\* filtered: the status tab first, then the trimmed, lower-cased query
filtered ==
    LET q == ToLower(Trim(query))
        list == IF selectedStatus # "ALL"
                THEN SelectSeq(items, LAMBDA it : it.status = selectedStatus)
                ELSE items
    IN IF q = <<>> THEN list
       ELSE SelectSeq(list, LAMBDA it : MatchesQuery(it, q))

pageSize == 8

\* Math.ceil(n / d) for a natural n
Ceil(n, d) == (n + d - 1) \div d
Max(a, b) == IF a >= b THEN a ELSE b
Min(a, b) == IF a <= b THEN a ELSE b

\* for comparison, a slice that takes the element at end too
SliceThroughEnd(list, start, end) ==
    SubSeq(list, start + 1, Min(end + 1, Len(list)))

\* Array.prototype.slice(start, end) for 0 <= start <= end
Slice(list, start, end) == SubSeq(list, start + 1, Min(end, Len(list)))

totalPages == Max(1, Ceil(Len(filtered), pageSize))
pageItemsOf(p) == Slice(filtered, (p - 1) * pageSize, p * pageSize)
pageItems == pageItemsOf(page)

\* the records of the server when the admin browses the list
BrowseBase ==
    << [firstName |-> <<"D", "a", "n">>, lastName |-> <<"N", "g">>,
        email |-> <<"d", "@", "x">>, mobile |-> <<"9", "1">>,
        shopName |-> <<"A", "b">>, status |-> "PENDING"],
       [firstName |-> <<"E", "v", "a">>, email |-> <<"A", "N", "@", "x">>,
        status |-> "ACCEPTED"],
       [firstName |-> <<"B", "o">>, lastName |-> <<"L", "i">>,
        mobile |-> <<"7", "7">>, shopName |-> <<"D", "a", "n">>,
        status |-> "REJECTED"],
       [firstName |-> <<"A", "l">>, lastName |-> <<"X", "u">>,
        mobile |-> <<"1", "9">>, status |-> "PENDING"] >>
BrowseRecord(i) ==
    [f \in DOMAIN BrowseBase[((i - 1) % Len(BrowseBase)) + 1] \cup {"id"} |->
        IF f = "id" THEN ToString(i)
        ELSE BrowseBase[((i - 1) % Len(BrowseBase)) + 1][f]]
BrowseLengths == {16, 17}
BrowseLists == {[i \in 1..n |-> BrowseRecord(i)] : n \in BrowseLengths}

\* what the admin types in the search box
Queries ==
    { <<>>, <<" ">>, <<"a", "n">>, <<" ", "A", "N">>, <<"n", " ", "n">>, <<"9">> }
Tabs == {"ALL", "PENDING", "ACCEPTED", "REJECTED"}

\* the search box: onChange, and its Clear button
SetQuery(q) ==
    /\ route = "partners" /\ task = "browse"
    /\ PageClickable
    /\ q # query
    /\ query' = q
    /\ ev' = OtherEvent
    /\ UNCHANGED << fixed, otherPages, notPartners, net, sent, srv, items, loading, error,
                    actionLoadingId, confirmOpen, confirmLoading, pendingAction,
                    onboardOpen, onboardSubmitting, selectedStatus, page >>

\* Enter in the search box
SearchEnter ==
    /\ route = "partners" /\ task = "browse"
    /\ PageClickable
    /\ page' = 1
    /\ ev' = OtherEvent
    /\ UNCHANGED << fixed, otherPages, notPartners, net, sent, srv, items, loading, error,
                    actionLoadingId, confirmOpen, confirmLoading, pendingAction,
                    onboardOpen, onboardSubmitting, query, selectedStatus >>

\* a status tab
SetSelectedStatus(s) ==
    /\ route = "partners" /\ task = "browse"
    /\ PageClickable
    /\ selectedStatus' = s
    /\ page' = 1
    /\ ev' = OtherEvent
    /\ UNCHANGED << fixed, otherPages, notPartners, net, sent, srv, items, loading, error,
                    actionLoadingId, confirmOpen, confirmLoading, pendingAction,
                    onboardOpen, onboardSubmitting, query >>

\* the Prev and Next buttons under the rows
PrevPage ==
    /\ route = "partners" /\ task = "browse"
    /\ PageClickable /\ RowsShown
    /\ page > 1
    /\ page' = page - 1
    /\ ev' = OtherEvent
    /\ UNCHANGED << fixed, otherPages, notPartners, net, sent, srv, items, loading, error,
                    actionLoadingId, confirmOpen, confirmLoading, pendingAction,
                    onboardOpen, onboardSubmitting, query, selectedStatus >>

NextPage ==
    /\ route = "partners" /\ task = "browse"
    /\ PageClickable /\ RowsShown
    /\ page < totalPages
    /\ page' = page + 1
    /\ ev' = OtherEvent
    /\ UNCHANGED << fixed, otherPages, notPartners, net, sent, srv, items, loading, error,
                    actionLoadingId, confirmOpen, confirmLoading, pendingAction,
                    onboardOpen, onboardSubmitting, query, selectedStatus >>

----------------------------------------------------------------------------
(* The onboarding pages: promo codes, labs, phlebotomists *)

Promo(id, code, amount) == [id |-> id, code |-> code, amount |-> amount]
Lab(id, name) == [id |-> id, name |-> name]
Phlebo(id, labId, isActive) == [id |-> id, labId |-> labId, isActive |-> isActive]

\* what the server holds (external collaborator; its lists do not change here)
PromoList == << Promo("p1", "X", 10), Promo("p2", "Y", 5) >>
LabList == << Lab("L1", "Alpha"), Lab("L2", "Beta") >>
PhleboList(labId) ==
    IF labId = "L1" THEN << Phlebo("f1", "L1", TRUE), Phlebo("f2", "L1", FALSE) >>
    ELSE IF labId = "L2" THEN << Phlebo("f3", "L2", TRUE) >>
    ELSE <<>>

\* the valid inputs of the creation forms
PromoForms == {[code |-> "Z", amount |-> 7]}
LabForms == {[name |-> "Gamma"]}
PhleboForms == {[labId |-> l, firstName |-> "N"] : l \in {"L1", "L2"}}

\* a JSON value that is no array
NotAnArray == [kind |-> "string"]

\* for comparison, a normalization that knows the bare array only
NormalizeBareOnly(data, key) == IF IsArray(data) THEN data.elems ELSE <<>>

\* fetchPromosFromApi / fetchLabsFromApi / fetchPhlebosFromApi on res.data:
\* the array itself, or the array under the named key, else []
NormalizeList(data, key) ==
    IF IsArray(data) THEN data.elems
    ELSE IF HasField(data, key) /\ IsArray(data.fields[key])
         THEN data.fields[key].elems
         ELSE <<>>

\* the axios call: a non-2xx response rejects
axiosCall(res) == IF ~res.ok THEN Throw("Request failed") ELSE Return(res.body)

fetchPromosFromApi(res) ==
    IF axiosCall(res).threw THEN axiosCall(res)
    ELSE Return(NormalizeList(res.body, "promos"))
fetchLabsFromApi(res) ==
    IF axiosCall(res).threw THEN axiosCall(res)
    ELSE Return(NormalizeList(res.body, "labs"))
fetchPhlebosFromApi(res) ==
    IF axiosCall(res).threw THEN axiosCall(res)
    ELSE Return(NormalizeList(res.body, "phlebos"))

\* the answers to a list GET: the bare array, the array under its key, an
\* object without the array, an object whose key holds no array, a non-2xx
ListBodies(list, key) ==
    { Response(TRUE, ArrayBody(list)),
      Response(TRUE, ObjectBody([k \in {"success", key} |->
                                   IF k = key THEN ArrayBody(list) ELSE TRUE])),
      Response(TRUE, ObjectBody([success |-> TRUE])),
      Response(TRUE, ObjectBody([k \in {"success", key} |->
                                   IF k = key THEN NotAnArray ELSE TRUE])),
      HttpError }

\* the answers to a create POST: success with the record under its key,
\* success without it, success: false, a non-2xx
CreateBodies(rec, key) ==
    { Response(TRUE, ObjectBody([k \in {"success", key} |->
                                   IF k = key THEN rec ELSE TRUE])),
      Response(TRUE, ObjectBody([success |-> TRUE])) } \cup FailureAnswers

\* the answers to PATCH /phlebos/:id/toggle and DELETE /phlebos/:id
ToggleBodies(id) ==
    { Response(TRUE, ObjectBody([success |-> TRUE,
                                 phlebo |-> Phlebo(id, "L1", b)])) : b \in BOOLEAN }
    \cup {Response(TRUE, ObjectBody([success |-> TRUE]))}
    \cup FailureAnswers
DeleteBodies == {Response(TRUE, ObjectBody([success |-> TRUE]))} \cup FailureAnswers

\* the answers to POST /labs/:id/packages and POST /labs/:id/tests: success
\* with the created item under its key, success without it, and failures
ItemBodies(rec, key) ==
    { Response(TRUE, ObjectBody([k \in {"success", key} |->
                                   IF k = key THEN rec ELSE TRUE])),
      Response(TRUE, ObjectBody([success |-> TRUE])) } \cup FailureAnswers

\* the answers to POST /admin/pricing/:pricingType
PricingBodies == {Response(TRUE, ObjectBody([success |-> TRUE]))} \cup FailureAnswers

\* the start dates of the date range the admin can pick
Dates == {"d1", "d2"}

\* the metrics of the server for a date range
StatsOf(from) ==
    [totalUsers |-> IF from = "d1" THEN 40 ELSE 90, newUsers7d |-> 4,
     totalOrders |-> 12, testsBookedToday |-> 2, revenue30d |-> 900]
TrendOf(from) == << [date |-> from, users |-> 4] >>
ByLabOf(from) == << [lab |-> "City Diagnostic", bookings |-> 12] >>
MethodsOf(from) == << [name |-> "UPI", value |-> 100] >>

\* a record with one more field
WithField(rec, k, v) ==
    [f \in DOMAIN rec \cup {k} |-> IF f = k THEN v ELSE rec[f]]

\* what Promise.all of the four fetches resolves to: the four responses
Responses(ov, trend, byLab, pm) ==
    Response(TRUE, ObjectBody([stats |-> ov, trend |-> trend, labs |-> byLab,
                               pm |-> pm]))

\* the answers to the four GETs of a load: all 2xx, the stats with or
\* without partnerRequestsCount; one of them non-2xx; a network error, which
\* rejects Promise.all
MetricsAnswers(from) ==
    LET ov == Response(TRUE, ObjectBody(StatsOf(from)))
        ovCounted == Response(TRUE, ObjectBody(
                        WithField(StatsOf(from), "partnerRequestsCount", 5)))
        trend == Response(TRUE, ArrayBody(TrendOf(from)))
        byLab == Response(TRUE, ArrayBody(ByLabOf(from)))
        pm == Response(TRUE, ArrayBody(MethodsOf(from)))
    IN { Responses(ovCounted, trend, byLab, pm),
         Responses(ov, trend, byLab, pm),
         Responses(HttpError, trend, byLab, pm),
         Responses(ov, HttpError, byLab, pm),
         Responses(ovCounted, trend, byLab, HttpError),
         Response(FALSE, ObjectBody([message |-> "Failed to fetch"])) }

\* the answers to GET /api/admin/partner-requests/count
CountAnswers == {Response(TRUE, ObjectBody([count |-> 3])), HttpError}

Answers(m) ==
    CASE m.op = "fetchPromos" -> ListBodies(PromoList, "promos")
      [] m.op = "fetchLabs" -> ListBodies(LabList, "labs")
      [] m.op = "fetchPhlebos" -> ListBodies(PhleboList(m.id), "phlebos")
      [] m.op = "postPromo" ->
            CreateBodies(Promo(NewIds[sent], m.data.code, m.data.amount), "promo")
      [] m.op = "postLab" -> CreateBodies(Lab(NewIds[sent], m.data.name), "lab")
      [] m.op = "postPhlebo" ->
            CreateBodies(Phlebo(NewIds[sent], m.data.labId, TRUE), "phlebo")
      [] m.op = "togglePhlebo" -> ToggleBodies(m.id)
      [] m.op = "deletePhlebo" -> DeleteBodies
      [] m.op = "postPricing" -> PricingBodies
      [] m.op = "postPackage" ->
            ItemBodies(WithField(m.data.body, "id", NewIds[sent]), "pkg")
      [] m.op = "postTest" ->
            ItemBodies(WithField(m.data.body, "id", NewIds[sent]), "test")
      [] m.op = "fetchAll" -> MetricsAnswers(m.data.from)
      [] m.op = "fetchCount" -> CountAnswers
      [] OTHER -> {}

ServerAnswer(m) ==
    /\ m \in net /\ m.phase = "sent"
    /\ \E r \in Answers(m) :
         net' = (net \ {m}) \cup {[m EXCEPT !.phase = "answered", !.res = r]}
    /\ ev' = ServerEvent
    /\ UNCHANGED << fixed, otherPages, sent, partnersPage, notPartners >>

\* the page renders while every row is a record: p.id of a row that is
\* undefined throws in render, and the page is gone
PhlebosRendered == \A i \in 1..Len(phlebos) : phlebos[i] # Undefined

\* a modal's backdrop covers the page
NoModal == ~isModalOpen

\* the New button of an onboarding page
OpenModal ==
    /\ route \in {"promos", "labs", "phlebos"} /\ task = "onboard"
    /\ NoModal /\ PhlebosRendered
    /\ isModalOpen' = TRUE
    /\ ev' = OtherEvent
    /\ UNCHANGED << fixed, otherPages, net, sent, partnersPage, phlebosPage, promosPage,
                    labsPage, isSubmitting >>

\* Escape, the backdrop and the close button of the creation modal
CloseModal ==
    /\ route \in {"promos", "labs", "phlebos"}
    /\ isModalOpen /\ PhlebosRendered
    /\ isModalOpen' = FALSE
    /\ ev' = OtherEvent
    /\ UNCHANGED << fixed, otherPages, net, sent, partnersPage, phlebosPage, promosPage,
                    labsPage, isSubmitting >>

\* ---- PromoCodesOnboarding

\* fetchPromos, up to its await
fetchPromos ==
    /\ CanSend
    /\ isLoadingPromos' = TRUE
    /\ promosError' = Null
    /\ net' = net \cup {Request("fetchPromos", Null, Null, NoData)}
    /\ sent' = sent + 1

RefreshPromos ==
    /\ route = "promos"
    /\ NoModal
    /\ fetchPromos
    /\ promos' = promos
    /\ ev' = OtherEvent
    /\ UNCHANGED << fixed, otherPages, partnersPage, phlebosPage, labsPage, formState >>

\* fetchPromos, after its await
FetchPromosSettle(m) ==
    /\ m \in Answered("fetchPromos")
    /\ net' = net \ {m}
    /\ LET list == fetchPromosFromApi(m.res) IN
       /\ IF list.threw
          THEN /\ promosError' = list.message
               /\ promos' = <<>>
          ELSE /\ promos' = list.value
               /\ promosError' = promosError
       /\ ev' = Event("fetchSettle", Null, Null, ~list.threw)
    /\ isLoadingPromos' = FALSE
    /\ UNCHANGED << fixed, otherPages, sent, partnersPage, phlebosPage, labsPage, formState >>

\* onSubmit, up to its await
SubmitPromo(data) ==
    /\ route = "promos"
    /\ isModalOpen /\ ~isSubmitting
    /\ CanSend
    /\ isSubmitting' = TRUE
    /\ net' = net \cup {Request("postPromo", Null, Null, data)}
    /\ sent' = sent + 1
    /\ ev' = OtherEvent
    /\ UNCHANGED << fixed, otherPages, partnersPage, phlebosPage, promosPage, labsPage,
                    isModalOpen >>

\* the PromoItem onSubmit builds from res.promo
PromoItem(promo) == Promo(promo.id, promo.code, promo.amount)

\* onSubmit, after its await
SubmitPromoSettle(m) ==
    /\ m \in Answered("postPromo")
    /\ net' = net \ {m}
    /\ LET res == axiosCall(m.res)
           ok == ~res.threw /\ HasField(res.value, "success")
                 /\ res.value.fields.success = TRUE /\ HasField(res.value, "promo")
       IN /\ IF ok
             THEN /\ promos' = Prepend(PromoItem(res.value.fields.promo), promos)
                  /\ isModalOpen' = FALSE
             ELSE UNCHANGED << promos, isModalOpen >>
          /\ ev' = Event("submitSettle", Null, Null, ok)
    /\ isSubmitting' = FALSE
    /\ UNCHANGED << fixed, otherPages, sent, partnersPage, phlebosPage, labsPage,
                    isLoadingPromos, promosError >>

\* ---- LabOnboarding

\* fetchLabs, up to its await
fetchLabs ==
    /\ CanSend
    /\ isLoadingLabs' = TRUE
    /\ labsError' = Null
    /\ net' = net \cup {Request("fetchLabs", Null, Null, NoData)}
    /\ sent' = sent + 1

RefreshLabs ==
    /\ route = "labs" /\ task = "onboard"
    /\ NoModal /\ ~packageModalOpen
    /\ fetchLabs
    /\ labs' = labs
    /\ ev' = OtherEvent
    /\ UNCHANGED << fixed, otherPages, partnersPage, phlebosPage, promosPage, formState >>

\* fetchLabs, after its await
FetchLabsSettle(m) ==
    /\ m \in Answered("fetchLabs")
    /\ net' = net \ {m}
    /\ LET list == fetchLabsFromApi(m.res) IN
       /\ IF list.threw
          THEN /\ labsError' = list.message
               /\ labs' = <<>>
          ELSE /\ labs' = list.value
               /\ labsError' = labsError
       /\ ev' = Event("fetchSettle", Null, Null, ~list.threw)
    /\ isLoadingLabs' = FALSE
    /\ UNCHANGED << fixed, otherPages, sent, partnersPage, phlebosPage, promosPage, formState >>

\* onSubmit, up to its await
SubmitLab(data) ==
    /\ route = "labs"
    /\ isModalOpen /\ ~isSubmitting
    /\ CanSend
    /\ isSubmitting' = TRUE
    /\ net' = net \cup {Request("postLab", Null, Null, data)}
    /\ sent' = sent + 1
    /\ ev' = OtherEvent
    /\ UNCHANGED << fixed, otherPages, partnersPage, phlebosPage, promosPage, labsPage,
                    isModalOpen >>

\* onSubmit, after its await: the returned lab goes first, and without one
\* the list is fetched again
SubmitLabSettle(m) ==
    /\ m \in Answered("postLab")
    /\ LET res == axiosCall(m.res)
           ok == ~res.threw /\ HasField(res.value, "success")
                 /\ res.value.fields.success = TRUE
       IN /\ IF ok /\ HasField(res.value, "lab")
             THEN /\ labs' = Prepend(res.value.fields.lab, labs)
                  /\ net' = net \ {m}
                  /\ UNCHANGED << sent, isLoadingLabs, labsError >>
             ELSE IF ok
             THEN /\ CanSend
                  /\ isLoadingLabs' = TRUE
                  /\ labsError' = Null
                  /\ net' = (net \ {m}) \cup {Request("fetchLabs", Null, Null, NoData)}
                  /\ sent' = sent + 1
                  /\ labs' = labs
             ELSE /\ net' = net \ {m}
                  /\ UNCHANGED << labs, sent, isLoadingLabs, labsError >>
          /\ isModalOpen' = IF ok THEN FALSE ELSE isModalOpen
          /\ ev' = Event("submitSettle", Null, Null, ok)
    /\ isSubmitting' = FALSE
    /\ UNCHANGED << fixed, otherPages, partnersPage, phlebosPage, promosPage >>

\* ---- PhlebosOnboarding

\* the cards are rendered when the list is loaded, without error, not empty
CardsShown ==
    /\ ~isLoadingPhlebos /\ phlebosError = Null /\ Len(phlebos) > 0
    /\ PhlebosRendered

\* fetchPhlebos(labId), up to its await
fetchPhlebos(labId) ==
    /\ CanSend
    /\ isLoadingPhlebos' = TRUE
    /\ phlebosError' = Null
    /\ net' = net \cup {Request("fetchPhlebos", labId, Null, NoData)}
    /\ sent' = sent + 1

RefreshPhlebos ==
    /\ route = "phlebos" /\ task \in {"review", "onboard"}
    /\ NoModal /\ PhlebosRendered
    /\ selectedLabId # Null
    /\ fetchPhlebos(selectedLabId)
    /\ ev' = OtherEvent
    /\ UNCHANGED << fixed, otherPages, partnersPage, promosPage, labsPage, formState,
                    phlebos, isTogglingId, isDeletingId, selectedLabId >>

\* the lab select of the header: setSelectedLabId, and the effect on
\* selectedLabId fetches the phlebotomists of the chosen lab
SelectLab(labId) ==
    /\ route = "phlebos" /\ task = "switch"
    /\ NoModal /\ PhlebosRendered
    /\ labId # selectedLabId
    /\ selectedLabId' = labId
    /\ fetchPhlebos(labId)
    /\ ev' = Event("selectLab", labId, Null, TRUE)
    /\ UNCHANGED << fixed, otherPages, partnersPage, promosPage, labsPage, formState,
                    phlebos, isTogglingId, isDeletingId >>

\* fetchPhlebos, after its await
FetchPhlebosSettle(m) ==
    /\ m \in Answered("fetchPhlebos")
    /\ PhlebosRendered
    /\ net' = net \ {m}
    /\ LET list == fetchPhlebosFromApi(m.res) IN
       /\ IF list.threw
          THEN /\ phlebosError' = list.message
               /\ phlebos' = <<>>
          ELSE /\ phlebos' = list.value
               /\ phlebosError' = phlebosError
       /\ ev' = Event("fetchSettle", m.id, Null, ~list.threw)
    /\ isLoadingPhlebos' = FALSE
    /\ UNCHANGED << fixed, otherPages, sent, partnersPage, promosPage, labsPage, formState,
                    isTogglingId, isDeletingId, selectedLabId >>

\* handleToggle, up to its await; the button of the row in isTogglingId is
\* disabled
HandleToggle(i) ==
    /\ route = "phlebos" /\ task \in {"review", "toggle"}
    /\ NoModal /\ CardsShown
    /\ i \in 1..Len(phlebos)
    /\ isTogglingId # phlebos[i].id
    /\ CanSend
    /\ isTogglingId' = phlebos[i].id
    /\ net' = net \cup {Request("togglePhlebo", phlebos[i].id, Null, NoData)}
    /\ sent' = sent + 1
    /\ ev' = Event("toggle", phlebos[i].id, Null, TRUE)
    /\ UNCHANGED << fixed, otherPages, partnersPage, promosPage, labsPage, formState,
                    phlebos, isLoadingPhlebos, phlebosError, isDeletingId,
                    selectedLabId >>

\* the list after a successful toggle of id
ReplaceRow(list, id, rec) ==
    [i \in 1..Len(list) |-> IF list[i].id = id THEN rec ELSE list[i]]

\* handleToggle, after its await
HandleToggleSettle(m) ==
    /\ m \in Answered("togglePhlebo")
    /\ PhlebosRendered
    /\ net' = net \ {m}
    /\ LET res == axiosCall(m.res)
           ok == ~res.threw /\ HasField(res.value, "success")
                 /\ res.value.fields.success = TRUE
           phlebo == IF HasField(res.value, "phlebo") THEN res.value.fields.phlebo
                     ELSE Undefined
       IN /\ phlebos' = IF ok THEN ReplaceRow(phlebos, m.id, phlebo) ELSE phlebos
          /\ ev' = Event("toggleSettle", m.id, Null, ok)
    /\ isTogglingId' = Null
    /\ UNCHANGED << fixed, otherPages, sent, partnersPage, promosPage, labsPage, formState,
                    isLoadingPhlebos, phlebosError, isDeletingId, selectedLabId >>

\* handleDelete, once the native confirm() is accepted, up to its await
HandleDelete(i) ==
    /\ route = "phlebos" /\ task = "review"
    /\ NoModal /\ CardsShown
    /\ i \in 1..Len(phlebos)
    /\ isDeletingId # phlebos[i].id
    /\ CanSend
    /\ isDeletingId' = phlebos[i].id
    /\ net' = net \cup {Request("deletePhlebo", phlebos[i].id, Null, NoData)}
    /\ sent' = sent + 1
    /\ ev' = Event("delete", phlebos[i].id, Null, TRUE)
    /\ UNCHANGED << fixed, otherPages, partnersPage, promosPage, labsPage, formState,
                    phlebos, isLoadingPhlebos, phlebosError, isTogglingId,
                    selectedLabId >>

\* the list after a successful delete of id
RemoveRow(list, id) == SelectSeq(list, LAMBDA p : p.id # id)

\* handleDelete, after its await
HandleDeleteSettle(m) ==
    /\ m \in Answered("deletePhlebo")
    /\ PhlebosRendered
    /\ net' = net \ {m}
    /\ LET res == axiosCall(m.res)
           ok == ~res.threw /\ HasField(res.value, "success")
                 /\ res.value.fields.success = TRUE
       IN /\ phlebos' = IF ok THEN RemoveRow(phlebos, m.id) ELSE phlebos
          /\ ev' = Event("deleteSettle", m.id, Null, ok)
    /\ isDeletingId' = Null
    /\ UNCHANGED << fixed, otherPages, sent, partnersPage, promosPage, labsPage, formState,
                    isLoadingPhlebos, phlebosError, isTogglingId, selectedLabId >>

\* onSubmit, up to its await; the closure holds the selected lab
SubmitPhlebo(data) ==
    /\ route = "phlebos"
    /\ isModalOpen /\ ~isSubmitting /\ PhlebosRendered
    /\ CanSend
    /\ isSubmitting' = TRUE
    /\ net' = net \cup {Request("postPhlebo", selectedLabId, Null, data)}
    /\ sent' = sent + 1
    /\ ev' = OtherEvent
    /\ UNCHANGED << fixed, otherPages, partnersPage, phlebosPage, promosPage, labsPage,
                    isModalOpen >>

\* onSubmit, after its await: the new phlebotomist goes first when it is of
\* the selected lab; for another lab the list is fetched again
SubmitPhleboSettle(m) ==
    /\ m \in Answered("postPhlebo")
    /\ PhlebosRendered
    /\ LET res == axiosCall(m.res)
           ok == ~res.threw /\ HasField(res.value, "success")
                 /\ res.value.fields.success = TRUE /\ HasField(res.value, "phlebo")
       IN /\ IF ok /\ res.value.fields.phlebo.labId = m.id
             THEN /\ phlebos' = Prepend(res.value.fields.phlebo, phlebos)
                  /\ net' = net \ {m}
                  /\ UNCHANGED << sent, isLoadingPhlebos, phlebosError >>
             ELSE IF ok
             THEN /\ CanSend
                  /\ isLoadingPhlebos' = TRUE
                  /\ phlebosError' = Null
                  /\ net' = (net \ {m}) \cup {Request("fetchPhlebos", m.id, Null, NoData)}
                  /\ sent' = sent + 1
                  /\ phlebos' = phlebos
             ELSE /\ net' = net \ {m}
                  /\ UNCHANGED << phlebos, sent, isLoadingPhlebos, phlebosError >>
          /\ isModalOpen' = IF ok THEN FALSE ELSE isModalOpen
          /\ ev' = Event("submitSettle", Null, Null, ok)
    /\ isSubmitting' = FALSE
    /\ UNCHANGED << fixed, otherPages, partnersPage, promosPage, labsPage, isTogglingId,
                    isDeletingId, selectedLabId >>

----------------------------------------------------------------------------
(* LabOnboarding: the Actions modal, packages and tests of a lab *)

\* Number(text) of a form field: NaN for a text that is no number, 0 for
\* the empty text
IsDigit(c) == c \in {"0", "1", "2", "3", "4", "5", "6", "7", "8", "9"}
DigitValue(c) ==
    CASE c = "0" -> 0 [] c = "1" -> 1 [] c = "2" -> 2 [] c = "3" -> 3
      [] c = "4" -> 4 [] c = "5" -> 5 [] c = "6" -> 6 [] c = "7" -> 7
      [] c = "8" -> 8 [] c = "9" -> 9
AllDigits(t) == t # <<>> /\ \A i \in 1..Len(t) : IsDigit(t[i])
RECURSIVE DigitsValue(_)
DigitsValue(t) ==
    IF t = <<>> THEN 0
    ELSE 10 * DigitsValue(SubSeq(t, 1, Len(t) - 1)) + DigitValue(t[Len(t)])
IsNaN(text) ==
    LET t == Trim(text)
    IN t # <<>> /\ ~AllDigits(t) /\ ~(t[1] = "-" /\ AllDigits(Tail(t)))
Number(text) ==
    LET t == Trim(text)
    IN IF t = <<>> THEN 0
       ELSE IF t[1] = "-" THEN 0 - DigitsValue(Tail(t))
       ELSE DigitsValue(t)
\* comparisons with NaN are false
NumLess(a, b) == ~IsNaN(a) /\ ~IsNaN(b) /\ Number(a) < Number(b)
NumLessEq(a, b) == ~IsNaN(a) /\ ~IsNaN(b) /\ Number(a) <= Number(b)
\* Number(text) || 0
NumberOr0(text) == IF IsNaN(text) THEN 0 ELSE Number(text)

\* validatePackageForm (count is totalParams, with includedTests) and
\* validateTestForm (count is parameters): TRUE when no error is found
validateForm(form, count) ==
    /\ Trim(form.name) # <<>>
    /\ "includedTests" \in DOMAIN form => Trim(form.includedTests) # <<>>
    /\ ~(Trim(form[count]) = <<>> \/ NumLessEq(form[count], <<"0">>))
    /\ ~(Trim(form.mrp) = <<>> \/ NumLessEq(form.mrp, <<"0">>))
    /\ ~(form.discounted # <<>> /\ NumLess(form.discounted, <<"0">>))
    /\ ~(form.discounted # <<>> /\ form.mrp # <<>>
         /\ NumLess(form.mrp, form.discounted))

\* the body of the POST: trimmed name, the numbers of the fields or 0
BodyOf(form, count) ==
    [name |-> Trim(form.name), count |-> NumberOr0(form[count]),
     mrp |-> NumberOr0(form.mrp), discounted |-> NumberOr0(form.discounted)]

\* what the admin can have typed into the package form and the test form
PkgForm(name, totalParams, mrp, discounted) ==
    [name |-> name, includedTests |-> <<"a">>, totalParams |-> totalParams,
     mrp |-> mrp, discounted |-> discounted]
PkgForms ==
    { PkgForm(<<"C">>, <<"5">>, <<"9">>, <<>>),
      PkgForm(<<" ">>, <<"5">>, <<"9">>, <<>>),
      PkgForm(<<"C">>, <<"0">>, <<"9">>, <<>>),
      PkgForm(<<"C">>, <<"5">>, <<>>, <<>>),
      PkgForm(<<"C">>, <<"5">>, <<"9">>, <<"1", "2">>),
      PkgForm(<<"C">>, <<"5">>, <<"9">>, <<"-", "1">>),
      PkgForm(<<"C">>, <<"x">>, <<"9">>, <<>>) }
TestForm(name, parameters, mrp, discounted) ==
    [name |-> name, parameters |-> parameters, mrp |-> mrp,
     discounted |-> discounted]
TestForms ==
    { TestForm(<<"T">>, <<"3">>, <<"9">>, <<>>),
      TestForm(<<>>, <<"3">>, <<"9">>, <<>>),
      TestForm(<<"T">>, <<"3">>, <<"9">>, <<"1", "2">>) }

\* lab.packages || [] and lab.tests || []
ListOf(labItem, key) == IF key \in DOMAIN labItem THEN labItem[key] ELSE <<>>

\* the cards of the labs are rendered
LabCardsShown == ~isLoadingLabs /\ labsError = Null /\ Len(labs) > 0

\* openPackageModal: the Actions button of a lab card
OpenPackageModal(i) ==
    /\ route = "labs" /\ task \in {"packages", "actions"}
    /\ NoModal /\ ~packageModalOpen /\ LabCardsShown
    /\ i \in 1..Len(labs)
    /\ task = "packages" =>
          activeLabForPackage = NoLab \/ labs[i].id = activeLabForPackage.id
    /\ activeLabForPackage' = labs[i]
    /\ activeTab' = "packages"
    /\ packageModalOpen' = TRUE
    /\ ev' = Event("openPackageModal", labs[i].id, Null, TRUE)
    /\ UNCHANGED << fixed, pricingForm, dashboardPage, partnersPage, notPartners,
                    net, sent, isPostingPackage, isPostingTest >>

\* Escape, the backdrop and the close button of the Actions modal
ClosePackageModal ==
    /\ route = "labs"
    /\ packageModalOpen
    /\ packageModalOpen' = FALSE
    /\ ev' = OtherEvent
    /\ UNCHANGED << fixed, pricingForm, dashboardPage, partnersPage, notPartners,
                    net, sent, activeLabForPackage, isPostingPackage,
                    isPostingTest, activeTab >>

\* the Packages / Tests tabs of the Actions modal
SetActiveTab(t) ==
    /\ route = "labs" /\ task = "packages"
    /\ packageModalOpen /\ activeLabForPackage # NoLab
    /\ t # activeTab
    /\ activeTab' = t
    /\ ev' = OtherEvent
    /\ UNCHANGED << fixed, pricingForm, dashboardPage, partnersPage, notPartners,
                    net, sent, packageModalOpen, activeLabForPackage,
                    isPostingPackage, isPostingTest >>

\* handleAddPackage / handleAddTest, up to the await: nothing is sent for a
\* form that fails its validation; the request keeps the lab the handler
\* was rendered with
handleAdd(op, form, count) ==
    IF validateForm(form, count)
    THEN /\ CanSend
         /\ net' = net \cup {Request(op, activeLabForPackage.id, Null,
                                     [lab |-> activeLabForPackage, form |-> form,
                                      body |-> BodyOf(form, count)])}
         /\ sent' = sent + 1
    ELSE UNCHANGED << net, sent >>

\* the Add Package button (disabled while isPostingPackage)
HandleAddPackage(form) ==
    /\ route = "labs"
    /\ packageModalOpen /\ activeLabForPackage # NoLab
    /\ activeTab = "packages" /\ ~isPostingPackage
    /\ handleAdd("postPackage", form, "totalParams")
    /\ isPostingPackage' = validateForm(form, "totalParams")
    /\ ev' = Event("addPackage", activeLabForPackage.id, Null,
                   validateForm(form, "totalParams"))
    /\ UNCHANGED << fixed, pricingForm, dashboardPage, partnersPage, notPartners,
                    packageModalOpen, activeLabForPackage, isPostingTest,
                    activeTab >>

\* the Add Test button (disabled while isPostingTest)
HandleAddTest(form) ==
    /\ route = "labs"
    /\ packageModalOpen /\ activeLabForPackage # NoLab
    /\ activeTab = "tests" /\ ~isPostingTest
    /\ handleAdd("postTest", form, "parameters")
    /\ isPostingTest' = validateForm(form, "parameters")
    /\ ev' = Event("addTest", activeLabForPackage.id, Null,
                   validateForm(form, "parameters"))
    /\ UNCHANGED << fixed, pricingForm, dashboardPage, partnersPage, notPartners,
                    packageModalOpen, activeLabForPackage, isPostingPackage,
                    activeTab >>

\* the item the handler appends: res.pkg / res.test, else res.data, else
\* the body with a random id and the lab's id
NewItem(json, key, labItem, body) ==
    IF HasField(json, key) THEN json.fields[key]
    ELSE IF HasField(json, "data") THEN json.fields.data
    ELSE WithField(WithField(body, "labId", labItem.id), "id",
                   RandomIds[Len(ListOf(labItem, "packages"))
                             + Len(ListOf(labItem, "tests")) + 1])

\* updateLabInState: the lab of the same id is replaced in labs
updateLabInState(updated) ==
    labs' = [i \in 1..Len(labs) |->
               IF labs[i].id = updated.id THEN updated ELSE labs[i]]

\* the success branch of both handlers: the item is appended to the lab
\* the handler was rendered with, and that lab replaces the one in labs and
\* becomes the active lab of the modal
addItemDone(m, key, listKey) ==
    LET labItem == m.data.lab
        item == NewItem(m.res.body, key, labItem, m.data.body)
        updatedLab == WithField(labItem, listKey,
                                Append(ListOf(labItem, listKey), item))
    IN /\ updateLabInState(updatedLab)
       /\ activeLabForPackage' = updatedLab

\* handleAddPackage, after its await
HandleAddPackageSettle(m) ==
    /\ route = "labs"
    /\ m \in Answered("postPackage")
    /\ net' = net \ {m}
    /\ LET res == axiosCall(m.res)
           ok == ~res.threw /\ HasField(res.value, "success")
                 /\ res.value.fields.success = TRUE
       IN /\ IF ok THEN addItemDone(m, "pkg", "packages")
             ELSE UNCHANGED << labs, activeLabForPackage >>
          /\ ev' = Event("addPackageSettle", m.id, Null, ok)
    /\ isPostingPackage' = FALSE
    /\ UNCHANGED << fixed, pricingForm, dashboardPage, partnersPage, phlebosPage,
                    promosPage, formState, sent, isLoadingLabs, labsError,
                    packageModalOpen, isPostingTest, activeTab >>

\* handleAddTest, after its await
HandleAddTestSettle(m) ==
    /\ route = "labs"
    /\ m \in Answered("postTest")
    /\ net' = net \ {m}
    /\ LET res == axiosCall(m.res)
           ok == ~res.threw /\ HasField(res.value, "success")
                 /\ res.value.fields.success = TRUE
       IN /\ IF ok THEN addItemDone(m, "test", "tests")
             ELSE UNCHANGED << labs, activeLabForPackage >>
          /\ ev' = Event("addTestSettle", m.id, Null, ok)
    /\ isPostingTest' = FALSE
    /\ UNCHANGED << fixed, pricingForm, dashboardPage, partnersPage, phlebosPage,
                    promosPage, formState, sent, isLoadingLabs, labsError,
                    packageModalOpen, isPostingPackage, activeTab >>

----------------------------------------------------------------------------
(* PartnersPricingLists: the CSV upload of partner pricing *)

PricingTypes == {"tests", "packages"}
LAB_OPTIONS == {"healthians", "thyrocare", "dr_mittal"}
PARTNER_TYPES == {"chemist", "clinics", "gyms", "others"}
\* what the file input can hold: nothing, or a chosen CSV file
Files == {Null, "pricing.csv"}

\* the full-screen loader covers the page and the modal while isSubmitting
PricingClickable == route = "pricing" /\ ~isSubmitting

\* the Upload Pricing button of the page
OpenPricingModal ==
    /\ PricingClickable /\ ~isModalOpen
    /\ isModalOpen' = TRUE
    /\ ev' = OtherEvent
    /\ UNCHANGED << fixed, dashboardPage, actionsModal, net, sent, partnersPage, phlebosPage, promosPage,
                    labsPage, isSubmitting, pricingForm >>

\* the backdrop and the close button of the modal
ClosePricingModal ==
    /\ PricingClickable /\ isModalOpen
    /\ isModalOpen' = FALSE
    /\ ev' = OtherEvent
    /\ UNCHANGED << fixed, dashboardPage, actionsModal, net, sent, partnersPage, phlebosPage, promosPage,
                    labsPage, isSubmitting, pricingForm >>

SetPricingType(v) ==
    /\ PricingClickable /\ isModalOpen
    /\ pricingType' = v
    /\ ev' = OtherEvent
    /\ UNCHANGED << fixed, dashboardPage, actionsModal, net, sent, partnersPage, notPartners, lab,
                    partnerType, file >>

SetLab(v) ==
    /\ PricingClickable /\ isModalOpen
    /\ lab' = v
    /\ ev' = OtherEvent
    /\ UNCHANGED << fixed, dashboardPage, actionsModal, net, sent, partnersPage, notPartners, partnerType,
                    pricingType, file >>

SetPartnerType(v) ==
    /\ PricingClickable /\ isModalOpen
    /\ partnerType' = v
    /\ ev' = OtherEvent
    /\ UNCHANGED << fixed, dashboardPage, actionsModal, net, sent, partnersPage, notPartners, lab,
                    pricingType, file >>

SetFile(f) ==
    /\ PricingClickable /\ isModalOpen
    /\ file' = f
    /\ ev' = OtherEvent
    /\ UNCHANGED << fixed, dashboardPage, actionsModal, net, sent, partnersPage, notPartners, lab,
                    partnerType, pricingType >>

resetForm ==
    /\ lab' = "healthians"
    /\ partnerType' = "chemist"
    /\ pricingType' = "tests"
    /\ file' = Null

\* the Reset button of the modal
ResetPricing ==
    /\ PricingClickable /\ isModalOpen
    /\ resetForm
    /\ ev' = OtherEvent
    /\ UNCHANGED << fixed, dashboardPage, actionsModal, net, sent, partnersPage, notPartners >>

\* for comparison, a submit that raises its flag before it looks at the file
submitPricingFlagFirst ==
    /\ isSubmitting' = TRUE
    /\ IF file = Null
       THEN UNCHANGED << net, sent >>
       ELSE /\ net' = net \cup {Request("postPricing", Null, pricingType,
                                        [lab |-> lab, partnerType |-> partnerType,
                                         file |-> file])}
            /\ sent' = sent + 1

\* submitPricing, up to its await: without a file it only shows a toast
submitPricing ==
    IF file = Null
    THEN UNCHANGED << net, sent, isSubmitting >>
    ELSE /\ isSubmitting' = TRUE
         /\ net' = net \cup {Request("postPricing", Null, pricingType,
                                     [lab |-> lab, partnerType |-> partnerType,
                                      file |-> file])}
         /\ sent' = sent + 1

\* the Upload button of the modal
ClickUpload ==
    /\ PricingClickable /\ isModalOpen
    /\ file # Null => CanSend
    /\ submitPricing
    /\ ev' = Event("submitPricing", Null, pricingType, file # Null)
    /\ UNCHANGED << fixed, dashboardPage, actionsModal, partnersPage, phlebosPage, promosPage, labsPage,
                    isModalOpen, pricingForm >>

\* submitPricing, after its await
SubmitPricingSettle(m) ==
    /\ route = "pricing"
    /\ m \in Answered("postPricing")
    /\ net' = net \ {m}
    /\ LET r == axiosCall(m.res)
           ok == ~r.threw /\ HasField(r.value, "success")
                          /\ r.value.fields.success = TRUE
       IN /\ IF ok
             THEN resetForm /\ isModalOpen' = FALSE
             ELSE UNCHANGED << pricingForm, isModalOpen >>
          /\ ev' = Event("submitPricingSettle", Null, m.type, ok)
    /\ isSubmitting' = FALSE
    /\ UNCHANGED << fixed, dashboardPage, actionsModal, sent, partnersPage, phlebosPage, promosPage, labsPage >>

----------------------------------------------------------------------------
(* AdminDashboard: the parallel load of the metrics and the mock fallback *)

\* the mock dataset of the fallback effect
mockOverview ==
    [totalUsers |-> 12485, newUsers7d |-> 142, totalOrders |-> 3287,
     testsBookedToday |-> 62, revenue30d |-> 254000, partnerRequestsCount |-> 8]
mockTrend ==
    << [date |-> "28 Aug", users |-> 12], [date |-> "29 Aug", users |-> 18],
       [date |-> "30 Aug", users |-> 9], [date |-> "31 Aug", users |-> 24],
       [date |-> "01 Sep", users |-> 30], [date |-> "02 Sep", users |-> 28],
       [date |-> "03 Sep", users |-> 21] >>
mockByLab ==
    << [lab |-> "City Diagnostic", bookings |-> 120],
       [lab |-> "HealthPlus Labs", bookings |-> 95],
       [lab |-> "WellCare Lab", bookings |-> 70],
       [lab |-> "North Lab", bookings |-> 40] >>
mockPM ==
    << [name |-> "UPI", value |-> 58], [name |-> "Card", value |-> 30],
       [name |-> "NetBanking", value |-> 7], [name |-> "COD", value |-> 5] >>

\* the date inputs of the top bar
SetFromDate(d) ==
    /\ route = "dashboard"
    /\ d # fromDate
    /\ fromDate' = d
    /\ ev' = OtherEvent
    /\ UNCHANGED << fixed, pricingForm, actionsModal, partnersPage, notPartners, net, sent,
                    metrics, dashLoading, dashError >>

\* fetchAll, up to its await of Promise.all
fetchAll(from) ==
    /\ CanSend
    /\ dashLoading' = TRUE
    /\ dashError' = Null
    /\ net' = net \cup {Request("fetchAll", Null, Null, [from |-> from])}
    /\ sent' = sent + 1

\* the Refresh button: fetchAll()
OnRefresh ==
    /\ route = "dashboard"
    /\ fetchAll(fromDate)
    /\ ev' = Event("fetchAll", Null, "refresh", TRUE)
    /\ UNCHANGED << fixed, pricingForm, actionsModal, partnersPage, notPartners, fromDate,
                    metrics >>

\* the Apply button of the date range: fetchAll(fromDate, toDate)
OnApplyDateRange ==
    /\ route = "dashboard"
    /\ fetchAll(fromDate)
    /\ ev' = Event("fetchAll", Null, "apply", TRUE)
    /\ UNCHANGED << fixed, pricingForm, actionsModal, partnersPage, notPartners, fromDate,
                    metrics >>

\* the catch and finally of fetchAll, and the fallback effect that runs on
\* the change of loading and error: the mock data if (and only if) there is
\* no overview yet
fetchAllFailed(message) ==
    /\ dashError' = message
    /\ dashLoading' = FALSE
    /\ IF overview = NoOverview
       THEN /\ overview' = mockOverview
            /\ usersTrend' = mockTrend
            /\ bookingsByLab' = mockByLab
            /\ paymentMethods' = mockPM
       ELSE UNCHANGED metrics

\* the end of the try block of fetchAll, and its finally
fetchAllDone(ov, bodies) ==
    /\ overview' = ov
    /\ usersTrend' = bodies.trend.body.elems
    /\ bookingsByLab' = bodies.labs.body.elems
    /\ paymentMethods' = bodies.pm.body.elems
    /\ dashLoading' = FALSE
    /\ dashError' = dashError

\* a load has failed: a fetch was rejected, or a response is not ok
LoadFailed(res) ==
    \/ ~res.ok
    \/ \E k \in DOMAIN res.body.fields : ~res.body.fields[k].ok

\* fetchAll, after Promise.all: throw on a response that is not ok; with
\* all of them parsed, ask for the count the stats do not carry
FetchAllSettle(m) ==
    /\ route = "dashboard"
    /\ m \in Answered("fetchAll")
    /\ IF LoadFailed(m.res)
       THEN /\ net' = net \ {m}
            /\ fetchAllFailed(IF m.res.ok THEN "API error" ELSE "Failed to fetch")
            /\ ev' = Event("fetchAllSettle", Null, Null, FALSE)
       ELSE LET bodies == m.res.body.fields
                ovJson == bodies.stats.body.fields
            IN IF "partnerRequestsCount" \in DOMAIN ovJson
               THEN /\ net' = net \ {m}
                    /\ fetchAllDone(ovJson, bodies)
                    /\ ev' = Event("fetchAllSettle", Null, Null, TRUE)
               ELSE /\ net' = (net \ {m}) \cup
                                 {Request("fetchCount", Null, Null, bodies)}
                    /\ ev' = Event("fetchCount", Null, Null, TRUE)
                    /\ UNCHANGED << metrics, dashLoading, dashError >>
    /\ UNCHANGED << fixed, pricingForm, actionsModal, partnersPage, notPartners, sent, fromDate >>

\* fetchPartnerRequestsCount: the count of a 2xx body, else null
fetchPartnerRequestsCount(res) ==
    IF res.ok /\ HasField(res.body, "count") THEN res.body.fields.count ELSE Null

\* fetchAll, after its await of fetchPartnerRequestsCount
FetchCountSettle(m) ==
    /\ route = "dashboard"
    /\ m \in Answered("fetchCount")
    /\ net' = net \ {m}
    /\ LET ovJson == m.data.stats.body.fields
           res == m.res
       IN fetchAllDone(IF res.ok /\ HasField(res.body, "count")
                       THEN WithField(ovJson, "partnerRequestsCount",
                                      fetchPartnerRequestsCount(res))
                       ELSE ovJson, m.data)
    /\ ev' = Event("fetchAllSettle", Null, Null, TRUE)
    /\ UNCHANGED << fixed, pricingForm, actionsModal, partnersPage, notPartners, sent, fromDate >>

----------------------------------------------------------------------------
(* The specification *)

\* the server's requests when the page is opened
SrvInit ==
    { << PartnerRequest("1", "PENDING", "A", "a@x"),
         PartnerRequest("2", s, "B", "b@x") >> : s \in {"PENDING", "REJECTED"} }

\* the request of a page's mount effect
MountRequest(op, id) ==
    [slot |-> 1, op |-> op, phase |-> "sent", id |-> id, type |-> Null,
     data |-> NoData, res |-> NoResponse]

\* a page after its first render and mount effect: its list fetch is under
\* way (the phlebotomist page: the labs are loaded and the first is selected)
Init ==
    /\ route \in {"partners", "phlebos", "promos", "labs", "pricing", "dashboard"}
    /\ task \in CASE route = "partners" -> {"review", "onboard", "browse"}
                 [] route = "phlebos" -> {"review", "toggle", "onboard", "switch"}
                 [] route = "pricing" -> {"upload"}
                 [] route = "dashboard" -> {"watch"}
                 [] route = "labs" -> {"onboard", "packages", "actions"}
                 [] OTHER -> {"onboard"}
    /\ net = CASE route = "partners" -> {MountRequest("fetchRequests", Null)}
              [] route = "phlebos" -> {MountRequest("fetchPhlebos", "L1")}
              [] route = "promos" -> {MountRequest("fetchPromos", Null)}
              [] route = "labs" -> {MountRequest("fetchLabs", Null)}
              [] route = "dashboard" ->
                    {[MountRequest("fetchAll", Null) EXCEPT !.data = [from |-> "d1"]]}
              [] OTHER -> {}
    /\ sent = 0
    /\ ev = OtherEvent
    /\ srv \in CASE route = "partners" /\ task = "browse" -> BrowseLists
                [] route = "partners" -> SrvInit
                [] OTHER -> {<<>>}
    /\ items = <<>>
    /\ loading = (route = "partners")
    /\ error = Null
    /\ actionLoadingId = Null
    /\ confirmOpen = FALSE
    /\ confirmLoading = FALSE
    /\ pendingAction = NoAction
    /\ onboardOpen = FALSE
    /\ onboardSubmitting = FALSE
    /\ query = <<>>
    /\ selectedStatus = "ALL"
    /\ page = 1
    /\ phlebos = <<>>
    /\ isLoadingPhlebos = (route = "phlebos")
    /\ phlebosError = Null
    /\ isTogglingId = Null
    /\ isDeletingId = Null
    /\ selectedLabId = IF route = "phlebos" THEN "L1" ELSE Null
    /\ promos = <<>>
    /\ isLoadingPromos = (route = "promos")
    /\ promosError = Null
    /\ labs = <<>>
    /\ isLoadingLabs = (route = "labs")
    /\ labsError = Null
    /\ isModalOpen = FALSE
    /\ isSubmitting = FALSE
    /\ lab = "healthians"
    /\ partnerType = "chemist"
    /\ pricingType = "tests"
    /\ file = Null
    /\ fromDate = "d1"
    /\ overview = NoOverview
    /\ usersTrend = <<>>
    /\ bookingsByLab = <<>>
    /\ paymentMethods = <<>>
    /\ dashLoading = (route = "dashboard")
    /\ dashError = Null
    /\ packageModalOpen = FALSE
    /\ activeLabForPackage = NoLab
    /\ isPostingPackage = FALSE
    /\ isPostingTest = FALSE
    /\ activeTab = "packages"

Next ==
    \/ \E m \in net : ServerAnswerList(m)
    \/ \E m \in net : ServerAnswerPatch(m)
    \/ \E m \in net : ServerAnswerOnboard(m)
    \/ Refresh
    \/ Reload
    \/ \E m \in net : FetchRequestsSettle(m)
    \/ \E i \in 1..Len(items), t \in ActionTypes : AskConfirmTable(i, t)
    \/ \E i \in 1..Len(items), t \in ActionTypes : AskConfirmCard(i, t)
    \/ CancelConfirm
    \/ ConfirmAndPerform
    \/ \E m \in net : PerformActionSettle(m)
    \/ OpenOnboard
    \/ CloseOnboard
    \/ \E d \in OnboardForms : OnboardSubmit(d)
    \/ \E m \in net : OnboardSubmitSettle(m)
    \/ \E q \in Queries : SetQuery(q)
    \/ SearchEnter
    \/ \E s \in Tabs : SetSelectedStatus(s)
    \/ PrevPage
    \/ NextPage
    \/ \E m \in net : ServerAnswer(m)
    \/ OpenModal
    \/ CloseModal
    \/ RefreshPromos
    \/ \E m \in net : FetchPromosSettle(m)
    \/ \E d \in PromoForms : SubmitPromo(d)
    \/ \E m \in net : SubmitPromoSettle(m)
    \/ RefreshLabs
    \/ \E m \in net : FetchLabsSettle(m)
    \/ \E d \in LabForms : SubmitLab(d)
    \/ \E m \in net : SubmitLabSettle(m)
    \/ \E i \in 1..Len(labs) : OpenPackageModal(i)
    \/ ClosePackageModal
    \/ \E t \in {"packages", "tests"} : SetActiveTab(t)
    \/ \E f \in PkgForms : HandleAddPackage(f)
    \/ \E m \in net : HandleAddPackageSettle(m)
    \/ \E f \in TestForms : HandleAddTest(f)
    \/ \E m \in net : HandleAddTestSettle(m)
    \/ RefreshPhlebos
    \/ \E l \in {"L1", "L2"} : SelectLab(l)
    \/ \E m \in net : FetchPhlebosSettle(m)
    \/ \E i \in 1..Len(phlebos) : HandleToggle(i)
    \/ \E m \in net : HandleToggleSettle(m)
    \/ \E i \in 1..Len(phlebos) : HandleDelete(i)
    \/ \E m \in net : HandleDeleteSettle(m)
    \/ \E d \in PhleboForms : SubmitPhlebo(d)
    \/ \E m \in net : SubmitPhleboSettle(m)
    \/ OpenPricingModal
    \/ ClosePricingModal
    \/ \E v \in PricingTypes : SetPricingType(v)
    \/ \E v \in LAB_OPTIONS : SetLab(v)
    \/ \E v \in PARTNER_TYPES : SetPartnerType(v)
    \/ \E f \in Files : SetFile(f)
    \/ ResetPricing
    \/ ClickUpload
    \/ \E m \in net : SubmitPricingSettle(m)
    \/ \E d \in Dates : SetFromDate(d)
    \/ OnRefresh
    \/ OnApplyDateRange
    \/ \E m \in net : FetchAllSettle(m)
    \/ \E m \in net : FetchCountSettle(m)

Spec == Init /\ [][Next]_vars

----------------------------------------------------------------------------
(* Properties *)

\* the answered requests the step delivers to their handlers
Delivered == {m \in net \ net' : m.phase = "answered"}

\* a 2xx answer whose body says success: true
SuccessBody(res) ==
    res.ok /\ HasField(res.body, "success") /\ res.body.fields.success = TRUE

\* a rejected request, or a body that says success: false
FailedAnswer(res) ==
    ~res.ok \/ (HasField(res.body, "success") /\ res.body.fields.success = FALSE)

\* the create requests, the key of the created record in their answers, and
\* the list their page keeps
CreateOps == {"onboardSubmit", "postPromo", "postLab", "postPhlebo"}
RecordKey(op) ==
    CASE op = "onboardSubmit" -> "request"
      [] op = "postPromo" -> "promo"
      [] op = "postLab" -> "lab"
      [] op = "postPhlebo" -> "phlebo"
ListBefore(op) ==
    CASE op = "onboardSubmit" -> items
      [] op = "postPromo" -> promos
      [] op = "postLab" -> labs
      [] op = "postPhlebo" -> phlebos
ListAfter(op) ==
    CASE op = "onboardSubmit" -> items'
      [] op = "postPromo" -> promos'
      [] op = "postLab" -> labs'
      [] op = "postPhlebo" -> phlebos'

\* the list requests of the onboarding pages and the key of their array
ListOps == {"fetchPromos", "fetchLabs", "fetchPhlebos"}
ListKey(op) ==
    CASE op = "fetchPromos" -> "promos"
      [] op = "fetchLabs" -> "labs"
      [] op = "fetchPhlebos" -> "phlebos"
fetchListFromApi(op, res) ==
    CASE op = "fetchPromos" -> fetchPromosFromApi(res)
      [] op = "fetchLabs" -> fetchLabsFromApi(res)
      [] op = "fetchPhlebos" -> fetchPhlebosFromApi(res)

\* ---- C1

\* C1: when performAction(id, "approve") gets a successful response, exactly
\* the record whose id is id has its status set to ACCEPTED (REJECTED for
\* "reject"); every other record, the order and the length of the list are
\* unchanged.
C1_PerformActionFrame ==
    [][\A m \in Delivered :
          (m.op = "performAction" /\ m.res.ok /\ ~FailedAnswer(m.res)) =>
             /\ Len(items') = Len(items)
             /\ \A i \in 1..Len(items) :
                  IF items[i].id = m.id
                  THEN items'[i] =
                         [items[i] EXCEPT !.status = IF m.type = "approve"
                                                     THEN "ACCEPTED"
                                                     ELSE "REJECTED"]
                  ELSE items'[i] = items[i]]_vars

\* an approve has succeeded: its row shows ACCEPTED beside a row still PENDING
C1_Witness ==
    /\ ev.op = "performSettle" /\ ev.ok /\ ev.typ = "approve"
    /\ \E i, j \in 1..Len(items) :
         /\ items[i].id = ev.id /\ items[i].status = "ACCEPTED"
         /\ items[j].id # ev.id /\ items[j].status = "PENDING"

\* ---- C2

\* C2: while a mutating action is in flight for a row (approve / reject of a
\* partner request, toggle of a phlebotomist), no second request for the same
\* row id is in flight, whatever is done on other rows.
C2_OneRequestPerRow ==
    \A m1, m2 \in net :
        (/\ m1.op \in {"performAction", "togglePhlebo"}
         /\ m1.op = m2.op
         /\ m1.id = m2.id) => m1 = m2

\* ---- C3

\* the approve / reject requests the step sends
NewPatches == {m \in net' : m.op = "performAction" /\ m.phase = "sent"} \ net

\* C3: an approve / reject PATCH is sent only by the Confirm of an open
\* confirmation whose pendingAction askConfirm has captured; opening or
\* cancelling the confirmation sends none; one confirm sends exactly one
\* PATCH, for the captured id and type.
C3_PatchOnlyOnConfirm ==
    [][/\ NewPatches # {} =>
            /\ ev'.op = "confirm"
            /\ confirmOpen /\ pendingAction # NoAction
            /\ \A m \in NewPatches :
                 m.id = pendingAction.id /\ m.type = pendingAction.type
       /\ ev'.op \in {"askConfirm", "cancel"} => NewPatches = {}
       /\ ev'.op = "askConfirm" =>
            pendingAction' = [id |-> ev'.id, type |-> ev'.typ]
       /\ ev'.op = "confirm" => Cardinality(NewPatches) = 1]_vars

\* Confirm has just sent the one PATCH of the captured action
C3_Witness ==
    /\ ev.op = "confirm"
    /\ pendingAction # NoAction
    /\ Cardinality(InFlight("performAction")) = 1
    /\ \E m \in Sent("performAction") :
         m.id = pendingAction.id /\ m.type = pendingAction.type

\* ---- C4

\* C4: after a confirmed action settles and after the user cancels the
\* confirmation, confirmOpen is false and pendingAction is null.
C4_ConfirmStateCleared ==
    ev.op \in {"performSettle", "cancel"} =>
        ~confirmOpen /\ pendingAction = NoAction

\* ---- C5

\* C5: after performAction settles (success, success: false or a rejected
\* request) actionLoadingId is null and confirmLoading is false; after
\* onboardSubmit settles onboardSubmitting is false.
C5_FlagsCleared ==
    /\ ev.op = "performSettle" => actionLoadingId = Null /\ ~confirmLoading
    /\ ev.op = "onboardSettle" => ~onboardSubmitting
    /\ InFlight("performAction") = {} => actionLoadingId = Null /\ ~confirmLoading
    /\ InFlight("onboardSubmit") = {} => ~onboardSubmitting

\* a performAction has failed and the flags are cleared
C5_Witness ==
    /\ ev.op = "performSettle" /\ ~ev.ok
    /\ actionLoadingId = Null /\ ~confirmLoading

\* ---- C6

\* the new first record holds what the server returned (partner onboarding:
\* id, email and status of the returned request, the rest from the form)
MatchesReturned(op, new, rec, data) ==
    IF op = "onboardSubmit"
    THEN /\ new.id = rec.id /\ new.email = rec.email /\ new.status = rec.status
         /\ new.firstName = data.firstName
    ELSE new = rec

C7_StatusOneWay ==
    [][\A i \in 1..Len(items), j \in 1..Len(items') :
          (items[i].id = items'[j].id /\ items[i].status \in {"ACCEPTED", "REJECTED"})
             => items'[j].status = items[i].status]_vars

\* ---- C8

C9_SameListForBothShapes ==
    \A m \in net :
        (m.phase = "answered" /\ m.op \in ListOps /\ m.res.ok) =>
           LET key == ListKey(m.op)
               body == m.res.body
               list == IF IsArray(body) THEN body.elems
                       ELSE IF HasField(body, key) /\ IsArray(body.fields[key])
                            THEN body.fields[key].elems
                            ELSE <<>>
               bare == Response(TRUE, ArrayBody(list))
               keyed == Response(TRUE, ObjectBody([k \in {key} |-> ArrayBody(list)]))
           IN /\ (IsArray(body) \/ (HasField(body, key) /\ IsArray(body.fields[key])))
                    => fetchListFromApi(m.op, m.res) = Return(list)
              /\ fetchListFromApi(m.op, bare) = Return(list)
              /\ fetchListFromApi(m.op, keyed) = Return(list)

\* the promo list has arrived under its key and normalizes to the list
C9_Witness ==
    \E m \in Answered("fetchPromos") :
        /\ m.res.ok /\ HasField(m.res.body, "promos")
        /\ IsArray(m.res.body.fields.promos)
        /\ fetchPromosFromApi(m.res) = Return(PromoList)
        /\ Len(PromoList) = 2

\* ---- C10

\* C10: given a 2xx body that is a bare array of requests, fetchPartnerRequests
\* yields that array as the list, as it does for the { success, requests }
\* envelope.
C10_BareArrayTolerated ==
    \A m \in Answered("fetchRequests") :
        (m.res.ok /\ IsArray(m.res.body)) =>
            fetchPartnerRequests(m.res) = Return(m.res.body.elems)

\* ---- C11

\* a 2xx body that is neither an array nor an object carrying the array
Malformed(body, key) ==
    ~IsArray(body) /\ ~(HasField(body, key) /\ IsArray(body.fields[key]))

\* the error state of the page that sent the list request, after the step
ErrorAfter(op) ==
    CASE op = "fetchPromos" -> promosError'
      [] op = "fetchLabs" -> labsError'
      [] op = "fetchPhlebos" -> phlebosError'

\* C11: a list fetch answered with a non-2xx response or with a malformed 2xx
\* body (neither an array nor an object carrying the expected array) fails
\* and puts the page in its error state; it does not yield an empty list as
\* if the fetch had succeeded.
C11_MalformedListFails ==
    [][\A m \in Delivered :
          (m.op \in ListOps /\ (~m.res.ok \/ Malformed(m.res.body, ListKey(m.op))))
             => ErrorAfter(m.op) # Null]_vars

\* ---- C12

\* one of the name, email, mobile and shop of the record holds the text,
\* letter case aside
HoldsText(it, text) ==
    \E field \in {FullName(it), FieldOr(it, "email"), FieldOr(it, "mobile"),
                  FieldOr(it, "shopName")} :
        Includes(ToLower(field), ToLower(text))

\* C12 as stated: with status tab ALL, filtered is exactly the subsequence of
\* items (order kept) whose name, email, mobile or shop contains the query,
\* compared case-insensitively.
C12_FilteredHoldsQuery ==
    (task = "browse" /\ selectedStatus = "ALL") =>
        filtered = SelectSeq(items, LAMBDA it : HoldsText(it, query))

\* C12, amended: with status tab ALL, filtered is exactly the subsequence of
\* items (order kept) whose full name (first name, a space, last name),
\* email, mobile or shop contains the query without its leading and trailing
\* white space, compared case-insensitively.
C12_FilteredHoldsTrimmedQuery ==
    (task = "browse" /\ selectedStatus = "ALL") =>
        filtered = SelectSeq(items, LAMBDA it : HoldsText(it, Trim(query)))

\* a query with white space around it selects some of the loaded records
C12_Witness ==
    /\ task = "browse" /\ selectedStatus = "ALL"
    /\ Trim(query) # query /\ Trim(query) # <<>>
    /\ Len(items) = 17
    /\ Len(filtered) \in 1..(Len(items) - 1)

\* ---- C13

\* C13 as stated: with a status tab other than ALL and an empty query,
\* filtered is exactly the records of items whose status equals the tab; with
\* a non-empty query it is exactly the records that match the status and
\* contain the query.
C13_FilteredByTabAndQuery ==
    (task = "browse" /\ selectedStatus # "ALL") =>
        filtered = SelectSeq(items, LAMBDA it :
                       /\ it.status = selectedStatus
                       /\ query # <<>> => HoldsText(it, query))

\* C13, amended: with a status tab other than ALL and a query that is empty
\* or white space only, filtered is exactly the records of items whose status
\* equals the tab; otherwise it is exactly the records that match the status
\* and contain the query without its leading and trailing white space.
C13_FilteredByTabAndTrimmedQuery ==
    (task = "browse" /\ selectedStatus # "ALL") =>
        filtered = SelectSeq(items, LAMBDA it :
                       /\ it.status = selectedStatus
                       /\ Trim(query) # <<>> => HoldsText(it, Trim(query)))

\* tab and query each leave out records the other one keeps
C13_Witness ==
    /\ task = "browse" /\ selectedStatus = "PENDING" /\ Trim(query) # <<>>
    /\ Len(filtered) > 0
    /\ \E i, j \in 1..Len(items) :
         /\ items[i].status = "PENDING" /\ ~HoldsText(items[i], Trim(query))
         /\ items[j].status # "PENDING" /\ HoldsText(items[j], Trim(query))

\* ---- C14

RECURSIVE ConcatPages(_)
ConcatPages(n) == IF n = 0 THEN <<>> ELSE ConcatPages(n - 1) \o pageItemsOf(n)

\* C14: totalPages is max(1, ceil(filtered.length / 8)); pageItems holds at
\* most 8 records for any page value; the slices of pages 1..totalPages,
\* concatenated in order, are filtered.
C14_PagesPartitionFiltered ==
    /\ pageSize = 8
    /\ totalPages >= 1
    /\ totalPages * 8 >= Len(filtered)
    /\ totalPages > 1 => (totalPages - 1) * 8 < Len(filtered)
    /\ \A p \in 1..(totalPages + 2) : Len(pageItemsOf(p)) <= 8
    /\ Len(pageItems) <= 8
    /\ ConcatPages(totalPages) = filtered

\* the third page of seventeen records holds the last one
C14_Witness ==
    /\ Len(filtered) = 17 /\ totalPages = 3
    /\ page = 3 /\ pageItems = <<filtered[17]>>

\* C15: a click on Upload with no file chosen sends no request, leaves
\* isSubmitting false, and leaves the modal and the other form fields as
\* they were
C15_NoFileNoUpload ==
    [][(ev'.op = "submitPricing" /\ file = Null)
         => /\ net' = net
            /\ isSubmitting' = FALSE
            /\ UNCHANGED << isSubmitting, isModalOpen, lab, partnerType,
                            pricingType, file >>]_vars

\* Upload was clicked with no file in a form whose selects were changed
C15_Witness ==
    /\ ev.op = "submitPricing" /\ ~ev.ok
    /\ file = Null /\ isModalOpen /\ ~isSubmitting
    /\ lab = "thyrocare" /\ partnerType = "gyms" /\ pricingType = "packages"
    /\ net = {}

\* C16: rows do not block each other: while the PATCH of row A is in flight
\* and the confirm modal asks about another row B, Confirm can be clicked and
\* starts B's request
C16_OtherRowCanStart ==
    \A m \in InFlight("performAction") :
        (/\ confirmOpen
         /\ pendingAction # NoAction
         /\ pendingAction.id # m.id
         /\ CanSend)
        => ENABLED ConfirmAndPerform

\* ---- C17

\* C17: every fetch of the partner list, the one of the mount effect and
\* the ones of Refresh and Reload, starts with loading true and the error
\* cleared; when it succeeds items is replaced by the fetched list, page is
\* reset to 1 and loading ends
C17_FetchStartsAndSucceeds ==
    /\ route = "partners"
         => loading /\ error = Null /\ Sent("fetchRequests") # {}
    /\ [][/\ ev'.op = "refresh"
             => /\ loading' /\ error' = Null
                /\ \E m \in net' \ net : m.op = "fetchRequests"
          /\ \A m \in Delivered :
                (m.op = "fetchRequests" /\ ~fetchPartnerRequests(m.res).threw)
                   => /\ items' = fetchPartnerRequests(m.res).value
                      /\ page' = 1
                      /\ ~loading']_vars

\* a refresh of a browsed list of three pages has succeeded
C17_Witness ==
    /\ task = "browse" /\ sent = 1
    /\ ev.op = "fetchSettle" /\ ev.ok
    /\ net = {}
    /\ items = srv /\ Len(items) > 2 * pageSize
    /\ page = 1 /\ ~loading

\* ---- C18

\* C18: when a list fetch fails, the error message is set and loading ends;
\* the partner hook leaves the items it had, while the promo, lab and
\* phlebotomist pages set their list to empty
C18_FailedFetchSetsError ==
    [][\A m \in Delivered :
          /\ (m.op = "fetchRequests" /\ fetchPartnerRequests(m.res).threw)
                => error' # Null /\ ~loading' /\ items' = items
          /\ (m.op = "fetchPromos" /\ ~m.res.ok)
                => promosError' # Null /\ ~isLoadingPromos' /\ promos' = <<>>
          /\ (m.op = "fetchLabs" /\ ~m.res.ok)
                => labsError' # Null /\ ~isLoadingLabs' /\ labs' = <<>>
          /\ (m.op = "fetchPhlebos" /\ ~m.res.ok)
                => phlebosError' # Null /\ ~isLoadingPhlebos' /\ phlebos' = <<>>]_vars

\* a refresh of a loaded partner list has failed
C18_Witness ==
    /\ ev.op = "fetchSettle" /\ ~ev.ok /\ sent > 0
    /\ route = "partners"
    /\ Len(items) = 2 /\ error # Null /\ ~loading

\* ---- C19

\* C19: no approve, reject or create request is started while a fetch of
\* the partner list is in flight (loading is true)
C19_MutationsOnlyWhenReady ==
    [][\A m \in net' \ net :
          (m.phase = "sent" /\ m.op \in {"performAction", "onboardSubmit"})
             => ~loading /\ InFlight("fetchRequests") = {}]_vars

\* ---- C20

\* C20: whenever a load of the dashboard fails (a fetch is rejected or a
\* response is not 2xx), on mount, on Refresh or on Apply, the dashboard ends
\* the load showing the mock dataset
C20_FailedLoadShowsMock ==
    [][\A m \in Delivered :
          (m.op = "fetchAll" /\ LoadFailed(m.res))
             => /\ overview' = mockOverview
                /\ usersTrend' = mockTrend
                /\ bookingsByLab' = mockByLab
                /\ paymentMethods' = mockPM]_vars

\* ---- C25

\* C25: a confirm dialog opened for one row stays open with its
\* pendingAction until the admin confirms or cancels it: the settling of an
\* action in flight for another row neither closes it nor clears pendingAction
C25_DialogSurvivesOtherSettle ==
    [][\A m \in Delivered :
          (/\ m.op = "performAction"
           /\ confirmOpen /\ pendingAction # NoAction
           /\ pendingAction.id # m.id)
          => confirmOpen' /\ pendingAction' = pendingAction]_vars

\* ---- C27

\* C27: loading is true whenever a fetch of the partner list is in flight,
\* also when refreshes overlap
C27_LoadingWhileFetching ==
    (route = "partners" /\ InFlight("fetchRequests") # {}) => loading

\* ---- C28

\* C28: in every state of the partner page 1 <= page <= totalPages, so
\* pageItems is non-empty whenever filtered is non-empty
C28_PageWithinPages ==
    route = "partners" =>
        /\ 1 <= page /\ page <= totalPages
        /\ filtered # <<>> => pageItems # <<>>

\* ---- C22

\* C22: closing a creation modal by Escape or the backdrop sends no request
\* and discards the edits: when the modal is opened again every form field
\* holds its default value
C22_CloseDiscardsEdits ==
    [][/\ (isModalOpen /\ ~isModalOpen' /\ Delivered = {}) => net' = net
       /\ (~isModalOpen /\ isModalOpen')
             => /\ lab' = "healthians"
                /\ partnerType' = "chemist"
                /\ pricingType' = "tests"
                /\ file' = Null]_vars

\* ---- C30

\* C30: a successful toggle leaves the list with the same length and the
\* same ids in the same order, replaces no row but the toggled one, and
\* every element stays a well-formed record, whatever the success response
C30_ToggleKeepsListShape ==
    [][\A m \in Delivered :
          (m.op = "togglePhlebo" /\ SuccessBody(m.res))
             => /\ Len(phlebos') = Len(phlebos)
                /\ \A i \in 1..Len(phlebos) :
                      /\ phlebos'[i] # Undefined
                      /\ "id" \in DOMAIN phlebos'[i]
                      /\ phlebos'[i].id = phlebos[i].id
                      /\ phlebos[i].id # m.id => phlebos'[i] = phlebos[i]]_vars

\* ---- C26

\* C26: whenever no phlebotomist fetch is in flight, the list shown is the
\* one fetched for the selected lab: no row of another lab is in it
C26_ListOfSelectedLab ==
    (route = "phlebos" /\ task = "switch" /\ InFlight("fetchPhlebos") = {})
        => \A i \in 1..Len(phlebos) : phlebos[i].labId = selectedLabId

\* ---- C23

\* a field holds a number above zero
PositiveNumber(text) == Trim(text) # <<>> /\ ~IsNaN(text) /\ Number(text) > 0

\* the conditions of a form that may be posted: a name, a parameter count
\* and an MRP above zero, and a discounted price, when one is entered,
\* between zero and the MRP
FormAsRequired(form, count) ==
    /\ Trim(form.name) # <<>>
    /\ PositiveNumber(form[count])
    /\ PositiveNumber(form.mrp)
    /\ form.discounted # <<>>
          => /\ ~IsNaN(form.discounted)
             /\ 0 <= Number(form.discounted)
             /\ Number(form.discounted) <= Number(form.mrp)

\* C23: a package or test POST is sent only from a form with a name, a
\* parameter count and an MRP above zero and a discounted price, when
\* entered, between zero and the MRP; a click on a form that violates one of
\* them sends nothing and leaves the list of labs as it was
C23_PostOnlyFromValidForm ==
    [][/\ \A m \in net' \ net :
            /\ (m.op = "postPackage" /\ m.phase = "sent")
                  => FormAsRequired(m.data.form, "totalParams")
            /\ (m.op = "postTest" /\ m.phase = "sent")
                  => FormAsRequired(m.data.form, "parameters")
       /\ (ev'.op \in {"addPackage", "addTest"} /\ ~ev'.ok)
             => (net' = net /\ labs' = labs)]_vars

\* ---- C24

\* the packages and the tests a lab holds
ItemsOf(labItem) ==
    {ListOf(labItem, "packages")[k] : k \in 1..Len(ListOf(labItem, "packages"))}
    \cup {ListOf(labItem, "tests")[k] : k \in 1..Len(ListOf(labItem, "tests"))}

\* C24: no update of a lab is lost: when an add of a package or a test to
\* a lab succeeds, the lab's entry in labs holds one item more and still
\* holds every package and test it held before, so that after a package
\* add and a test add on one lab, in either order and overlapping, the
\* entry holds both
C24_NoLostUpdate ==
    [][\A m \in Delivered :
          (m.op \in {"postPackage", "postTest"} /\ ev'.ok)
             => \A i \in 1..Len(labs) :
                   labs[i].id = m.id
                      => /\ ItemsOf(labs[i]) \subseteq ItemsOf(labs'[i])
                         /\ ItemsOf(labs'[i]) # ItemsOf(labs[i])]_vars

\* ---- C29

\* C29: the lab of the Actions modal is the lab whose Actions button was
\* clicked last: a click on Actions makes that lab the active one, and no
\* other step, the completion of a package or test add included, makes
\* another lab the active one
C29_ActiveLabIsLastClicked ==
    [][IF ev'.op = "openPackageModal"
       THEN activeLabForPackage'.id = ev'.id
       ELSE activeLabForPackage'.id = activeLabForPackage.id]_vars

\* ---- C21

\* the create requests of the forms
FormPosts == {"onboardSubmit", "postPromo", "postLab", "postPhlebo",
              "postPricing", "postPackage", "postTest"}

\* C21: the submit of a creation form is disabled while the form is invalid
\* or a submission is in flight: no submit handler runs on an invalid form,
\* no form has two create requests in flight, and every create request
\* that is started comes from a valid form
C21_SubmitOnlyValidAndIdle ==
    [][/\ \A op \in FormPosts : Cardinality(InFlight(op)') <= 1
       /\ (ev'.op \in {"addPackage", "addTest", "submitPricing"}) => ev'.ok
       /\ \A m \in net' \ net :
             /\ (m.op = "postPackage" /\ m.phase = "sent")
                   => FormAsRequired(m.data.form, "totalParams")
             /\ (m.op = "postTest" /\ m.phase = "sent")
                   => FormAsRequired(m.data.form, "parameters")
             /\ (m.op = "postPricing" /\ m.phase = "sent")
                   => m.data.file # Null]_vars

====
